---- MODULE Spec2Model ----
(***************************************************************************)
(* State-machine model of the Markov jazz chord engine                     *)
(* (src/engine.js, class MarkovJazzEngine, second revision in the file).   *)
(*                                                                         *)
(* Numbers.  Every probability, weight and setting of the engine is a      *)
(* multiple of 1/100 (the app divides slider values by 100), so a real x   *)
(* is held as the integer 100*x.  Shaped distributions carry their own     *)
(* denominator.  A call of Math.random() is the next element of a draw     *)
(* stream rs handed to the operation; a draw r stands for r/100.           *)
(*                                                                         *)
(* Strings the code takes apart (degree and quality tokens) are tuples of  *)
(* one-character strings; all other strings are TLA+ strings.              *)
(***************************************************************************)
EXTENDS Integers, Sequences, FiniteSets, TLC

\* ------------------------------------------------------------------------
\* Bounds of the model
\* ------------------------------------------------------------------------
MaxBars == 2
MaxUpdates == 1
MaxModulations == 2
MaxLongBars == 5
MaxCalls == 3

\* Fixed-point scale: 1.0 is 100.
Unit == 100

Null == "null"
Undefined == "undefined"

\* ------------------------------------------------------------------------
\* Static tables
\* ------------------------------------------------------------------------
NOTES == <<"C", "Db", "D", "Eb", "E", "F", "Gb", "G", "Ab", "A", "Bb", "B">>

ENHARMONIC ==
    [n \in {"C#", "D#", "E#", "F#", "G#", "A#", "B#", "Cb", "Fb"} |->
        CASE n = "C#" -> "Db" [] n = "D#" -> "Eb" [] n = "E#" -> "F"
          [] n = "F#" -> "Gb" [] n = "G#" -> "Ab" [] n = "A#" -> "Bb"
          [] n = "B#" -> "C"  [] n = "Cb" -> "B"  [] n = "Fb" -> "E"]

\* One entry of an ordered mapping (JS objects keep insertion order).
E(key, weight) == [k |-> key, w |-> weight]

\* The elements of a 3-element array.
Range3(a) == {a[1], a[2], a[3]}

\* Keys of an ordered mapping, and lookup of a key known to be present.
Keys(m) == {m[i].k : i \in 1..Len(m)}
Get(m, key) == m[CHOOSE i \in 1..Len(m) : m[i].k = key].w

MAJOR_DEGREES ==
    << E("I", 0), E("bII", 1), E("II", 2), E("bIII", 3), E("III", 4), E("IV", 5),
       E("bV", 6), E("V", 7), E("bVI", 8), E("VI", 9), E("bVII", 10), E("VII", 11) >>

DEGREE_TRANSITIONS ==
    << E("I",    << E("ii", 22), E("IV", 18), E("V", 12), E("vi", 15), E("iii", 10),
                    E("bVII", 5), E("bIII", 4), E("bVI", 4), E("II", 5), E("I", 5) >>),
       E("ii",   << E("V", 50), E("bII", 10), E("bVII", 8), E("vi", 8),
                    E("iii", 6), E("IV", 6), E("I", 7), E("ii", 5) >>),
       E("iii",  << E("vi", 35), E("IV", 20), E("ii", 15), E("bIII", 8),
                    E("V", 10), E("I", 7), E("iii", 5) >>),
       E("IV",   << E("V", 25), E("I", 15), E("ii", 15), E("iv", 10),
                    E("bVII", 10), E("iii", 8), E("vi", 8), E("IV", 4), E("bII", 5) >>),
       E("V",    << E("I", 50), E("vi", 15), E("IV", 8), E("bVI", 8),
                    E("iii", 6), E("V", 5), E("bVII", 4), E("ii", 4) >>),
       E("vi",   << E("ii", 30), E("IV", 20), E("V", 15), E("iii", 10),
                    E("bVI", 8), E("I", 8), E("vi", 4), E("bVII", 5) >>),
       E("vii",  << E("I", 30), E("iii", 25), E("V", 15), E("vi", 10),
                    E("ii", 10), E("IV", 10) >>),
       E("bII",  << E("I", 60), E("V", 15), E("bVII", 10), E("ii", 10), E("vi", 5) >>),
       E("bIII", << E("IV", 30), E("bVII", 25), E("ii", 15), E("vi", 10),
                    E("I", 10), E("V", 10) >>),
       E("bVI",  << E("bVII", 30), E("V", 25), E("ii", 15), E("IV", 15),
                    E("I", 10), E("bII", 5) >>),
       E("bVII", << E("I", 35), E("IV", 20), E("bVI", 15), E("V", 10),
                    E("ii", 10), E("bIII", 10) >>),
       E("iv",   << E("I", 25), E("V", 25), E("bVII", 15), E("ii", 15),
                    E("bVI", 10), E("IV", 10) >>),
       E("II",   << E("V", 70), E("ii", 10), E("bII", 10), E("I", 10) >>),
       E("III",  << E("vi", 70), E("IV", 10), E("ii", 10), E("I", 10) >>),
       E("VI",   << E("ii", 70), E("V", 10), E("IV", 10), E("I", 10) >>),
       E("#IV",  << E("V", 60), E("I", 20), E("ii", 20) >>) >>

MINOR_DEGREE_TRANSITIONS ==
    << E("I",    << E("iv", 22), E("V", 15), E("bVII", 12), E("bVI", 12), E("ii", 15),
                    E("bIII", 8), E("v", 4), E("II", 5), E("I", 7) >>),
       E("ii",   << E("V", 55), E("bII", 8), E("bVII", 8), E("iv", 8),
                    E("I", 8), E("bVI", 7), E("ii", 6) >>),
       E("bIII", << E("bVI", 25), E("bVII", 25), E("iv", 15), E("V", 10),
                    E("ii", 10), E("I", 10), E("bIII", 5) >>),
       E("iv",   << E("V", 30), E("bVII", 15), E("I", 20), E("bVI", 10),
                    E("ii", 10), E("bIII", 8), E("iv", 4), E("bII", 3) >>),
       E("v",    << E("bVI", 25), E("bVII", 25), E("I", 20), E("iv", 15),
                    E("bIII", 10), E("v", 5) >>),
       E("V",    << E("I", 50), E("bVI", 15), E("iv", 10), E("bVII", 6),
                    E("bIII", 6), E("V", 5), E("ii", 4), E("bII", 4) >>),
       E("vi",   << E("ii", 30), E("IV", 20), E("V", 15), E("I", 15),
                    E("iv", 10), E("bVII", 10) >>),
       E("bVI",  << E("bVII", 30), E("V", 20), E("iv", 15), E("ii", 12),
                    E("I", 10), E("bII", 5), E("bIII", 8) >>),
       E("bVII", << E("I", 30), E("bIII", 20), E("bVI", 15), E("V", 10),
                    E("iv", 10), E("ii", 10), E("bVII", 5) >>),
       E("bII",  << E("I", 55), E("V", 15), E("bVII", 10), E("iv", 10), E("ii", 10) >>),
       E("II",   << E("V", 70), E("ii", 10), E("bII", 10), E("I", 10) >>),
       E("III",  << E("bVI", 40), E("iv", 20), E("bVII", 15), E("I", 10),
                    E("V", 10), E("ii", 5) >>),
       E("VI",   << E("ii", 70), E("V", 10), E("iv", 10), E("I", 10) >>),
       E("IV",   << E("V", 25), E("I", 20), E("ii", 15), E("bVII", 15),
                    E("iv", 10), E("bVI", 10), E("IV", 5) >>) >>

\* Keyed by <<previous degree, current degree>> (the code joins them with an arrow).
SECOND_ORDER_OVERRIDES ==
    << E(<<"ii", "V">>,     << E("I", 75), E("vi", 10), E("bVI", 5), E("IV", 4),
                               E("iii", 3), E("bVII", 3) >>),
       E(<<"iii", "vi">>,   << E("ii", 45), E("IV", 20), E("V", 10), E("I", 8),
                               E("bVI", 7), E("iii", 5), E("bVII", 5) >>),
       E(<<"vi", "ii">>,    << E("V", 55), E("bII", 10), E("bVII", 7), E("IV", 8),
                               E("I", 8), E("iii", 6), E("II", 6) >>),
       E(<<"II", "V">>,     << E("I", 70), E("vi", 12), E("bVI", 6), E("IV", 5),
                               E("iii", 4), E("bVII", 3) >>),
       E(<<"VI", "ii">>,    << E("V", 55), E("bII", 10), E("bVII", 7), E("IV", 8),
                               E("I", 8), E("iii", 6), E("ii", 6) >>),
       E(<<"III", "vi">>,   << E("ii", 40), E("IV", 20), E("V", 15), E("I", 8),
                               E("bVI", 7), E("iii", 5), E("bVII", 5) >>),
       E(<<"IV", "V">>,     << E("I", 55), E("vi", 15), E("bVI", 10), E("ii", 8),
                               E("iii", 6), E("bVII", 3), E("V", 3) >>),
       E(<<"bVI", "bVII">>, << E("I", 50), E("iv", 15), E("ii", 15), E("V", 10),
                               E("bVI", 5), E("bIII", 5) >>),
       E(<<"iv", "V">>,     << E("I", 70), E("bVI", 10), E("iv", 6), E("bVII", 6),
                               E("ii", 4), E("bIII", 4) >>) >>

\* target -> [chords, weight]
APPROACH_SEQUENCES ==
    << E("I",  [chords |-> <<"ii", "V", "I">>,     weight |-> 30]),
       E("ii", [chords |-> <<"iii", "VI", "ii">>,  weight |-> 20]),
       E("V",  [chords |-> <<"vi", "II", "V">>,    weight |-> 30]),
       E("vi", [chords |-> <<"vii", "III", "vi">>, weight |-> 20]) >>

APPROACH_PROBABILITY == 12

KEY_MODULATIONS ==
    << E("fifth_up", 25), E("fifth_down", 25), E("relative", 20), E("parallel", 15),
       E("tritone", 8), E("step_up", 4), E("step_down", 3) >>

QUALITY_OPTIONS ==
    [ tonic           |-> <<"maj7", "maj9", "6", "69", "maj7#11">>,
      subdominant     |-> <<"maj7", "maj9", "7", "m7", "6">>,
      dominant        |-> <<"7", "9", "13", "7#11", "7alt", "7b9", "7#9", "sus4">>,
      dominantToMinor |-> <<"7", "7b9", "7#9", "7alt">>,
      dominantToMajor |-> <<"7", "9", "13", "7#11", "sus4">>,
      minor           |-> <<"m7", "m9", "m11", "m6", "m69">>,
      halfDim         |-> <<"m7b5", "[oslash]7">>,
      diminished      |-> <<"dim7", "[degree]7">> ]

\* ------------------------------------------------------------------------
\* Strings as character tuples.  A glyph outside ASCII is one character
\* written as a bracketed name: [oslash] [degree] [Delta] [sharp] [flat].
\* ------------------------------------------------------------------------
Chars(s) ==
    CASE s = "I" -> <<"I">>                 [] s = "i" -> <<"i">>
      [] s = "ii" -> <<"i", "i">>           [] s = "II" -> <<"I", "I">>
      [] s = "iii" -> <<"i", "i", "i">>     [] s = "III" -> <<"I", "I", "I">>
      [] s = "iv" -> <<"i", "v">>           [] s = "IV" -> <<"I", "V">>
      [] s = "v" -> <<"v">>                 [] s = "V" -> <<"V">>
      [] s = "vi" -> <<"v", "i">>           [] s = "VI" -> <<"V", "I">>
      [] s = "vii" -> <<"v", "i", "i">>     [] s = "VII" -> <<"V", "I", "I">>
      [] s = "bII" -> <<"b", "I", "I">>     [] s = "bIII" -> <<"b", "I", "I", "I">>
      [] s = "bV" -> <<"b", "V">>           [] s = "bVI" -> <<"b", "V", "I">>
      [] s = "bVII" -> <<"b", "V", "I", "I">>
      [] s = "#IV" -> <<"#", "I", "V">>
      [] s = "#I" -> <<"#", "I">>           [] s = "#V" -> <<"#", "V">>
      [] s = "#VII" -> <<"#", "V", "I", "I">>
      [] s = "bii" -> <<"b", "i", "i">>
      [] s = "X" -> <<"X">>                 [] s = "#X" -> <<"#", "X">>
      [] s = "maj7" -> <<"m", "a", "j", "7">>
      [] s = "maj9" -> <<"m", "a", "j", "9">>
      [] s = "6" -> <<"6">>                 [] s = "69" -> <<"6", "9">>
      [] s = "maj7#11" -> <<"m", "a", "j", "7", "#", "1", "1">>
      [] s = "7" -> <<"7">>                 [] s = "9" -> <<"9">>
      [] s = "13" -> <<"1", "3">>
      [] s = "7#11" -> <<"7", "#", "1", "1">>
      [] s = "7alt" -> <<"7", "a", "l", "t">>
      [] s = "7b9" -> <<"7", "b", "9">>     [] s = "7#9" -> <<"7", "#", "9">>
      [] s = "sus4" -> <<"s", "u", "s", "4">>
      [] s = "m7" -> <<"m", "7">>           [] s = "m9" -> <<"m", "9">>
      [] s = "m11" -> <<"m", "1", "1">>     [] s = "m6" -> <<"m", "6">>
      [] s = "m69" -> <<"m", "6", "9">>
      [] s = "m7b5" -> <<"m", "7", "b", "5">>
      [] s = "[oslash]7" -> <<"[oslash]", "7">>
      [] s = "dim7" -> <<"d", "i", "m", "7">>
      [] s = "[degree]7" -> <<"[degree]", "7">>
      [] s = "[Delta]7" -> <<"[Delta]", "7">>
      [] s = "[Delta]9" -> <<"[Delta]", "9">>
      [] s = "7[sharp]11" -> <<"7", "[sharp]", "1", "1">>
      [] s = "7[flat]9" -> <<"7", "[flat]", "9">>
      [] s = "7[sharp]9" -> <<"7", "[sharp]", "9">>
      [] s = "-7" -> <<"-", "7">>           [] s = "-9" -> <<"-", "9">>
      [] s = "-11" -> <<"-", "1", "1">>     [] s = "-6" -> <<"-", "6">>
      [] s = "-6/9" -> <<"-", "6", "/", "9">>
      [] s = "6/9" -> <<"6", "/", "9">>

\* String.prototype.toUpperCase / toLowerCase, one character at a time.
UpperChar(c) ==
    CASE c = "i" -> "I" [] c = "v" -> "V" [] c = "b" -> "B" [] OTHER -> c

LowerChar(c) ==
    CASE c = "I" -> "i" [] c = "V" -> "v" [] c = "B" -> "b" [] OTHER -> c

toUpperCase(cs) == [i \in 1..Len(cs) |-> UpperChar(cs[i])]
toLowerCase(cs) == [i \in 1..Len(cs) |-> LowerChar(cs[i])]

\* s.startsWith(p)
StartsWith(cs, p) == Len(cs) >= Len(p) /\ SubSeq(cs, 1, Len(p)) = p

\* Index (1-based) of the first occurrence of pat in cs, 0 when absent.
IndexOfSub(cs, pat) ==
    LET hits == {i \in 1..(Len(cs) - Len(pat) + 1) : SubSeq(cs, i, i + Len(pat) - 1) = pat}
    IN IF hits = {} THEN 0 ELSE CHOOSE i \in hits : \A j \in hits : i <= j

\* s.replace(pat, rep) with a string pattern: the first occurrence only.
Replace(cs, pat, rep) ==
    LET i == IndexOfSub(cs, pat)
    IN IF i = 0 THEN cs
       ELSE SubSeq(cs, 1, i - 1) \o rep \o SubSeq(cs, i + Len(pat), Len(cs))

\* ------------------------------------------------------------------------
\* Ordered-mapping helpers
\* ------------------------------------------------------------------------
\* The element of a singleton set.  The({F(x) : x \in {v}}) is F(v) with v
\* evaluated once, as for a const local of the code.
The(S) == CHOOSE r \in S : TRUE

\* m[key] is defined (and, being an object or a non-empty string, truthy).
Has(m, key) == key \in Keys(m)

RECURSIVE SumW(_, _)
SumW(entries, i) == IF i > Len(entries) THEN 0 ELSE entries[i].w + SumW(entries, i + 1)

\* NOTES.indexOf(note): 0-based, -1 when absent.
IndexOfNote(note) ==
    IF \E i \in 1..12 : NOTES[i] = note
    THEN (CHOOSE i \in 1..12 : NOTES[i] = note) - 1
    ELSE -1

\* NOTES[i] for a 0-based index, Undefined outside the array.
NoteAt(i) == IF i \in 0..11 THEN NOTES[i + 1] ELSE Undefined

\* JS remainder: the sign follows the dividend.
JsMod(a, n) == IF a >= 0 THEN a % n ELSE -((-a) % n)

normalizeNote(note) == IF note \in DOMAIN ENHARMONIC THEN ENHARMONIC[note] ELSE note

\* The k-th call of Math.random() (k calls made before it) on draw stream rs.
Random(rs, k) == rs[(k % Len(rs)) + 1]

\* Value standing for a thrown TypeError.
TypeError == "TypeError"

RECURSIVE weightedLoop(_, _, _)
weightedLoop(entries, i, random) ==
    IF i > Len(entries) THEN entries[1].k
    ELSE LET rest == random - entries[i].w * Unit
         IN IF rest <= 0 THEN entries[i].k ELSE weightedLoop(entries, i + 1, rest)

\* weightedRandom that divides by the total: a zero total yields no key.
weightedRandom_Normalized(weights, r) ==
    IF Len(weights) = 0 THEN TypeError
    ELSE IF SumW(weights, 1) = 0 THEN Undefined
    ELSE weightedLoop(weights, 1, r * SumW(weights, 1))

\* weightedRandom(weights) with Math.random() = r/Unit; random is kept
\* multiplied by Unit.  entries[0][0] of an empty mapping throws.
weightedRandom(weights, r) ==
    IF Len(weights) = 0 THEN TypeError
    ELSE weightedLoop(weights, 1, r * SumW(weights, 1))

\* ------------------------------------------------------------------------
\* The engine.  An operation works on a record t holding the fields of
\* `this` together with
\*   k       the number of Math.random() calls made so far in the operation,
\*   threw   TRUE once the operation has thrown,
\*   ret     the value returned by the last method call,
\*   degrees the local array of generateBar,
\*   mods    the modulation types applied so far in the operation,
\*   tables  the contents of the static tables (module-level objects, which
\*           any code holding a reference to them could write),
\*   slots   a log of the chord slots of the session (not engine state): for
\*           each slot the bar and index, the degree emitted, where it came
\*           from, the key, the (previous, current) pair and the approach
\*           queue at the draw, the modulation types applied in the slot and
\*           the recent-degree window after the slot.
\* ------------------------------------------------------------------------
Key(root, mode) == [root |-> root, mode |-> mode]

\* ModulateKey with the relative offset of a major key used in both modes.
ModulateKey_SameRelative(key, type) ==
    LET currentRoot == IndexOfNote(normalizeNote(key.root))
        Up(n) == NoteAt(JsMod(currentRoot + n, 12))
    IN CASE type = "fifth_up"   -> Key(Up(7), key.mode)
         [] type = "fifth_down" -> Key(Up(5), key.mode)
         [] type = "relative"   -> Key(Up(9), IF key.mode = "major" THEN "minor" ELSE "major")
         [] type = "parallel"   -> Key(key.root, IF key.mode = "major" THEN "minor" ELSE "major")
         [] type = "tritone"    -> Key(Up(6), key.mode)
         [] type = "step_up"    -> Key(Up(2), key.mode)
         [] type = "step_down"  -> Key(Up(10), key.mode)

\* ModulateKey without the % 12 of the new root's index.
ModulateKey_NoWrap(key, type) ==
    LET currentRoot == IndexOfNote(normalizeNote(key.root))
        Up(n) == NoteAt(currentRoot + n)
    IN CASE type = "fifth_up"   -> Key(Up(7), key.mode)
         [] type = "fifth_down" -> Key(Up(5), key.mode)
         [] type = "relative"   -> IF key.mode = "major" THEN Key(Up(9), "minor")
                                                          ELSE Key(Up(3), "major")
         [] type = "parallel"   -> Key(key.root, IF key.mode = "major" THEN "minor" ELSE "major")
         [] type = "tritone"    -> Key(Up(6), key.mode)
         [] type = "step_up"    -> Key(Up(2), key.mode)
         [] type = "step_down"  -> Key(Up(10), key.mode)

\* ModulateKey with step_down a whole octave down.
ModulateKey_OctaveDown(key, type) ==
    LET currentRoot == IndexOfNote(normalizeNote(key.root))
        Up(n) == NoteAt(JsMod(currentRoot + n, 12))
    IN CASE type = "fifth_up"   -> Key(Up(7), key.mode)
         [] type = "fifth_down" -> Key(Up(5), key.mode)
         [] type = "relative"   -> IF key.mode = "major" THEN Key(Up(9), "minor")
                                                          ELSE Key(Up(3), "major")
         [] type = "parallel"   -> Key(key.root, IF key.mode = "major" THEN "minor" ELSE "major")
         [] type = "tritone"    -> Key(Up(6), key.mode)
         [] type = "step_up"    -> Key(Up(2), key.mode)
         [] type = "step_down"  -> Key(Up(12), key.mode)

\* ModulateKey with step_down a semitone down.
ModulateKey_SemitoneDown(key, type) ==
    LET currentRoot == IndexOfNote(normalizeNote(key.root))
        Up(n) == NoteAt(JsMod(currentRoot + n, 12))
    IN CASE type = "fifth_up"   -> Key(Up(7), key.mode)
         [] type = "fifth_down" -> Key(Up(5), key.mode)
         [] type = "relative"   -> IF key.mode = "major" THEN Key(Up(9), "minor")
                                                          ELSE Key(Up(3), "major")
         [] type = "parallel"   -> Key(key.root, IF key.mode = "major" THEN "minor" ELSE "major")
         [] type = "tritone"    -> Key(Up(6), key.mode)
         [] type = "step_up"    -> Key(Up(2), key.mode)
         [] type = "step_down"  -> Key(Up(11), key.mode)

\* modulate, lines 742-783: the key reached from key by a modulation type.
ModulateKey(key, type) ==
    LET currentRoot == IndexOfNote(normalizeNote(key.root))
        Up(n) == NoteAt(JsMod(currentRoot + n, 12))
    IN CASE type = "fifth_up"   -> Key(Up(7), key.mode)
         [] type = "fifth_down" -> Key(Up(5), key.mode)
         [] type = "relative"   -> IF key.mode = "major" THEN Key(Up(9), "minor")
                                                          ELSE Key(Up(3), "major")
         [] type = "parallel"   -> Key(key.root, IF key.mode = "major" THEN "minor" ELSE "major")
         [] type = "tritone"    -> Key(Up(6), key.mode)
         [] type = "step_up"    -> Key(Up(2), key.mode)
         [] type = "step_down"  -> Key(Up(10), key.mode)

\* modulate that also drops the approach sequence in progress.
modulate_DropsQueue(t, rs) ==
    LET type == weightedRandom(KEY_MODULATIONS, Random(rs, t.k))
    IN IF ~Has(KEY_MODULATIONS, type) THEN [t EXCEPT !.k = @ + 1]
       ELSE [t EXCEPT !.currentKey = ModulateKey(t.currentKey, type),
                      !.mods = Append(@, type),
                      !.currentDegree = IF Random(rs, t.k + 1) < 60 THEN "I" ELSE @,
                      !.approachQueue = <<>>,
                      !.k = @ + 2]

\* modulate that also forgets the degree before the current one.
modulate_ForgetsPrevious(t, rs) ==
    LET type == weightedRandom(KEY_MODULATIONS, Random(rs, t.k))
    IN IF ~Has(KEY_MODULATIONS, type) THEN [t EXCEPT !.k = @ + 1]
       ELSE [t EXCEPT !.currentKey = ModulateKey(t.currentKey, type),
                      !.mods = Append(@, type),
                      !.currentDegree = IF Random(rs, t.k + 1) < 60 THEN "I" ELSE @,
                      !.previousDegree = Null,
                      !.k = @ + 2]

modulate(t, rs) ==
    LET type == weightedRandom(KEY_MODULATIONS, Random(rs, t.k))
    IN IF ~Has(KEY_MODULATIONS, type) THEN [t EXCEPT !.k = @ + 1]
       ELSE [t EXCEPT !.currentKey = ModulateKey(t.currentKey, type),
                      !.mods = Append(@, type),
                      !.currentDegree = IF Random(rs, t.k + 1) < 60 THEN "I" ELSE @,
                      !.k = @ + 2]

\* maybeModulate with <= for < in the draw against the chance.
maybeModulate_OrEqual(t, rs) ==
    LET modulationChance == Unit - t.settings.keyStability
        postCadence      == t.currentDegree = "I" \/ t.currentDegree = "i"
        effectiveChance  == IF postCadence THEN modulationChance * 2 ELSE modulationChance
    IN IF Random(rs, t.k) <= effectiveChance
       THEN modulate([t EXCEPT !.k = @ + 1], rs)
       ELSE [t EXCEPT !.k = @ + 1]

maybeModulate(t, rs) ==
    LET modulationChance == Unit - t.settings.keyStability
        postCadence      == t.currentDegree = "I" \/ t.currentDegree = "i"
        effectiveChance  == IF postCadence THEN modulationChance * 2 ELSE modulationChance
    IN IF Random(rs, t.k) < effectiveChance
       THEN modulate([t EXCEPT !.k = @ + 1], rs)
       ELSE [t EXCEPT !.k = @ + 1]

\* A distribution in flight: its entries and the denominator of their weights.
Dist(entries, den) == [e |-> entries, den |-> den]

\* adjustForAdventurousness spreading over the 16 degrees of the first-order
\* table instead of the entries of the distribution.
adjustForAdventurousness_OverVocabulary(t, transitions) ==
    LET adventure == t.settings.adventurousness
        n         == Len(DEGREE_TRANSITIONS)
    IN Dist([i \in 1..Len(transitions.e) |->
                E(transitions.e[i].k,
                  transitions.e[i].w * (Unit - adventure) * n + adventure * transitions.den)],
            transitions.den * Unit * n)

adjustForAdventurousness(t, transitions) ==
    LET adventure == t.settings.adventurousness
        n         == Len(transitions.e)
    IN Dist([i \in 1..n |->
                E(transitions.e[i].k,
                  transitions.e[i].w * (Unit - adventure) * n + adventure * transitions.den)],
            transitions.den * Unit * n)

\* counts[d]: occurrences of d in the recent-degree window.
CountRecent(recentDegrees, d) ==
    Cardinality({i \in 1..Len(recentDegrees) : recentDegrees[i] = d})

\* applyAntiRepetition with > for >= in both count tests.
applyAntiRepetition_StrictCounts(t, transitions) ==
    IF Len(t.recentDegrees) < 3 THEN transitions
    ELSE Dist([i \in 1..Len(transitions.e) |->
                  LET count == CountRecent(t.recentDegrees, transitions.e[i].k)
                      w     == transitions.e[i].w
                  IN E(transitions.e[i].k,
                       IF count > 3 /\ w # 0 THEN w * 3
                       ELSE IF count > 2 /\ w # 0 THEN w * 7
                       ELSE w * 10)],
              transitions.den * 10)

\* applyAntiRepetition that removes instead of penalizing a degree seen 3
\* or more times in the window.
applyAntiRepetition_DropsRepeated(t, transitions) ==
    IF Len(t.recentDegrees) < 3 THEN transitions
    ELSE Dist(SelectSeq([i \in 1..Len(transitions.e) |->
                            LET count == CountRecent(t.recentDegrees, transitions.e[i].k)
                                w     == transitions.e[i].w
                            IN E(transitions.e[i].k,
                                 IF count >= 3 /\ w # 0 THEN 0
                                 ELSE IF count >= 2 /\ w # 0 THEN w * 7
                                 ELSE w * 10)],
                        LAMBDA e : e.w # 0),
              transitions.den * 10)

applyAntiRepetition(t, transitions) ==
    IF Len(t.recentDegrees) < 3 THEN transitions
    ELSE Dist([i \in 1..Len(transitions.e) |->
                  LET count == CountRecent(t.recentDegrees, transitions.e[i].k)
                      w     == transitions.e[i].w
                  IN E(transitions.e[i].k,
                       IF count >= 3 /\ w # 0 THEN w * 3
                       ELSE IF count >= 2 /\ w # 0 THEN w * 7
                       ELSE w * 10)],
              transitions.den * 10)

\* Lines 807-809: a second-order override exists for (previous, current).
HasOverride(t) ==
    /\ t.previousDegree # Null
    /\ Has(t.tables.SECOND_ORDER_OVERRIDES, <<t.previousDegree, t.currentDegree>>)

OverrideFor(t) ==
    Get(t.tables.SECOND_ORDER_OVERRIDES, <<t.previousDegree, t.currentDegree>>)

\* FirstOrder without the fallbacks: an absent entry spreads to nothing.
FirstOrder_NoFallback(t) ==
    LET isMinor == t.currentKey.mode = "minor"
        table   == IF isMinor THEN t.tables.MINOR_DEGREE_TRANSITIONS
                              ELSE t.tables.DEGREE_TRANSITIONS
    IN IF Has(table, t.currentDegree) THEN Get(table, t.currentDegree) ELSE <<>>

\* FirstOrder that falls back to the tonic entry only.
FirstOrder_TonicFallbackOnly(t) ==
    LET isMinor == t.currentKey.mode = "minor"
        table   == IF isMinor THEN t.tables.MINOR_DEGREE_TRANSITIONS
                              ELSE t.tables.DEGREE_TRANSITIONS
    IN IF Has(table, t.currentDegree) THEN Get(table, t.currentDegree)
       ELSE Get(t.tables.DEGREE_TRANSITIONS, "I")

\* Lines 816-820: the first-order distribution with its fallbacks.
FirstOrder(t) ==
    LET isMinor == t.currentKey.mode = "minor"
        table   == IF isMinor THEN t.tables.MINOR_DEGREE_TRANSITIONS
                              ELSE t.tables.DEGREE_TRANSITIONS
    IN IF Has(table, t.currentDegree) THEN Get(table, t.currentDegree)
       ELSE IF Has(t.tables.DEGREE_TRANSITIONS, t.currentDegree)
            THEN Get(t.tables.DEGREE_TRANSITIONS, t.currentDegree)
            ELSE Get(t.tables.DEGREE_TRANSITIONS, "I")

\* The static tables with '#IV' listed as a destination of 'IV' in major.
StaticTables_SharpFourDestination ==
    [ DEGREE_TRANSITIONS       |->
          [i \in 1..Len(DEGREE_TRANSITIONS) |->
              IF DEGREE_TRANSITIONS[i].k = "IV"
              THEN E("IV", Append(DEGREE_TRANSITIONS[i].w, E("#IV", 5)))
              ELSE DEGREE_TRANSITIONS[i]],
      MINOR_DEGREE_TRANSITIONS |-> MINOR_DEGREE_TRANSITIONS,
      SECOND_ORDER_OVERRIDES   |-> SECOND_ORDER_OVERRIDES,
      APPROACH_SEQUENCES       |-> APPROACH_SEQUENCES ]

\* The static tables as the module loads them.
StaticTables ==
    [ DEGREE_TRANSITIONS       |-> DEGREE_TRANSITIONS,
      MINOR_DEGREE_TRANSITIONS |-> MINOR_DEGREE_TRANSITIONS,
      SECOND_ORDER_OVERRIDES   |-> SECOND_ORDER_OVERRIDES,
      APPROACH_SEQUENCES       |-> APPROACH_SEQUENCES ]

\* m with the value of key replaced by value.
Put(m, key, value) == [i \in 1..Len(m) |-> IF m[i].k = key THEN E(key, value) ELSE m[i]]

\* tryStartApproach that queues the table's chords array itself, not a copy
\* of it: the table entry is left as the shifts of getNextDegree leave it.
tryStartApproach_QueuesTableArray(t, rs) ==
    LET sequences == t.tables.APPROACH_SEQUENCES
        weights   == SelectSeq([i \in 1..Len(sequences) |->
                                   E(sequences[i].k, sequences[i].w.weight)],
                               LAMBDA e : e.k # t.currentDegree)
    IN IF Len(weights) = 0 THEN [t EXCEPT !.ret = FALSE]
       ELSE LET target == weightedRandom(weights, Random(rs, t.k))
            IN [t EXCEPT !.approachQueue = Get(sequences, target).chords,
                         !.tables.APPROACH_SEQUENCES =
                             Put(@, target, [Get(sequences, target) EXCEPT !.chords = <<>>]),
                         !.k = @ + 1,
                         !.ret = TRUE]

\* tryStartApproach that draws among all four targets.
tryStartApproach_AnyTarget(t, rs) ==
    LET sequences == t.tables.APPROACH_SEQUENCES
        weights   == [i \in 1..Len(sequences) |-> E(sequences[i].k, sequences[i].w.weight)]
    IN IF Len(weights) = 0 THEN [t EXCEPT !.ret = FALSE]
       ELSE LET target == weightedRandom(weights, Random(rs, t.k))
            IN [t EXCEPT !.approachQueue = Get(sequences, target).chords,
                         !.k = @ + 1,
                         !.ret = TRUE]

tryStartApproach(t, rs) ==
    LET sequences == t.tables.APPROACH_SEQUENCES
        weights   == SelectSeq([i \in 1..Len(sequences) |->
                                   E(sequences[i].k, sequences[i].w.weight)],
                               LAMBDA e : e.k # t.currentDegree)
    IN IF Len(weights) = 0 THEN [t EXCEPT !.ret = FALSE]
       ELSE LET target == weightedRandom(weights, Random(rs, t.k))
            IN [t EXCEPT !.approachQueue = Get(sequences, target).chords,
                         !.k = @ + 1,
                         !.ret = TRUE]

\* DrawFromTable that always draws from the first-order table.
DrawFromTable_FirstOrderOnly(t, rs) ==
    LET raw    == FirstOrder(t)
        shaped == applyAntiRepetition(t, adjustForAdventurousness(t, Dist(raw, Unit)))
    IN [t EXCEPT !.ret = weightedRandom(shaped.e, Random(rs, t.k)),
                 !.src = IF HasOverride(t) THEN "override" ELSE "table",
                 !.k = @ + 1]

\* Steps 3-6 of getNextDegree: select, shape, draw.
DrawFromTable(t, rs) ==
    LET raw    == IF HasOverride(t) THEN OverrideFor(t) ELSE FirstOrder(t)
        shaped == applyAntiRepetition(t, adjustForAdventurousness(t, Dist(raw, Unit)))
    IN [t EXCEPT !.ret = weightedRandom(shaped.e, Random(rs, t.k)),
                 !.src = IF HasOverride(t) THEN "override" ELSE "table",
                 !.k = @ + 1]

\* getNextDegree that reads the head of a new approach sequence without
\* removing it from the queue.
getNextDegree_KeepsHead(t, rs) ==
    IF Len(t.approachQueue) > 0
    THEN [t EXCEPT !.ret = Head(t.approachQueue),
                   !.approachQueue = Tail(@),
                   !.src = "queue"]
    ELSE IF Random(rs, t.k) < APPROACH_PROBABILITY
         THEN LET a == tryStartApproach([t EXCEPT !.k = @ + 1], rs)
              IN IF a.ret
                 THEN [a EXCEPT !.ret = Head(a.approachQueue),
                                !.src = "approach"]
                 ELSE DrawFromTable(a, rs)
         ELSE DrawFromTable([t EXCEPT !.k = @ + 1], rs)

getNextDegree(t, rs) ==
    IF Len(t.approachQueue) > 0
    THEN [t EXCEPT !.ret = Head(t.approachQueue),
                   !.approachQueue = Tail(@),
                   !.src = "queue"]
    ELSE IF Random(rs, t.k) < APPROACH_PROBABILITY
         THEN LET a == tryStartApproach([t EXCEPT !.k = @ + 1], rs)
              IN IF a.ret
                 THEN [a EXCEPT !.ret = Head(a.approachQueue),
                                !.approachQueue = Tail(@),
                                !.src = "approach"]
                 ELSE DrawFromTable(a, rs)
         ELSE DrawFromTable([t EXCEPT !.k = @ + 1], rs)

\* ------------------------------------------------------------------------
\* Lookahead
\* ------------------------------------------------------------------------
RECURSIVE mostProbableLoop(_, _, _, _)
mostProbableLoop(transitions, i, maxProb, maxDegree) ==
    IF i > Len(transitions) THEN maxDegree
    ELSE IF transitions[i].w > maxProb
         THEN mostProbableLoop(transitions, i + 1, transitions[i].w, transitions[i].k)
         ELSE mostProbableLoop(transitions, i + 1, maxProb, maxDegree)

\* getMostProbable with >= for >: among equal highest weights the last wins.
getMostProbable_LastWins(transitions) ==
    LET best == {i \in 1..Len(transitions) :
                    /\ transitions[i].w > 0
                    /\ \A j \in 1..Len(transitions) : transitions[j].w <= transitions[i].w}
    IN IF best = {} THEN "I"
       ELSE transitions[CHOOSE i \in best : \A j \in best : j <= i].k

getMostProbable(transitions) == mostProbableLoop(transitions, 1, 0, "I")

\* peekLikelyNextDegree over the shaped distribution of getNextDegree.
peekLikelyNextDegree_Shaped(t) ==
    LET raw == IF HasOverride(t) THEN OverrideFor(t) ELSE FirstOrder(t)
    IN getMostProbable(
           applyAntiRepetition(t, adjustForAdventurousness(t, Dist(raw, Unit))).e)

peekLikelyNextDegree(t) ==
    IF t.previousDegree # Null
       /\ Has(t.tables.SECOND_ORDER_OVERRIDES, <<t.previousDegree, t.currentDegree>>)
    THEN getMostProbable(Get(t.tables.SECOND_ORDER_OVERRIDES,
                             <<t.previousDegree, t.currentDegree>>))
    ELSE LET isMinor == t.currentKey.mode = "minor"
             table   == IF isMinor THEN t.tables.MINOR_DEGREE_TRANSITIONS
                                   ELSE t.tables.DEGREE_TRANSITIONS
         IN getMostProbable(
                IF Has(table, t.currentDegree) THEN Get(table, t.currentDegree)
                ELSE IF Has(t.tables.DEGREE_TRANSITIONS, t.currentDegree)
                     THEN Get(t.tables.DEGREE_TRANSITIONS, t.currentDegree)
                     ELSE Get(t.tables.DEGREE_TRANSITIONS, "I"))

\* ------------------------------------------------------------------------
\* Chord realization
\* ------------------------------------------------------------------------
\* MAJOR_DEGREES[cs] for a character tuple cs, Undefined when absent.
MajorDegree(cs) ==
    IF \E i \in 1..Len(MAJOR_DEGREES) : Chars(MAJOR_DEGREES[i].k) = cs
    THEN MAJOR_DEGREES[CHOOSE i \in 1..Len(MAJOR_DEGREES) : Chars(MAJOR_DEGREES[i].k) = cs].w
    ELSE -1

\* getDegreeInterval that drops the semitone of a leading '#'.
getDegreeInterval_SharpIgnored(degree) ==
    LET cs         == Chars(degree)
        normalized == [i \in 1..Len(cs) |->
                          IF cs[i] \in {"i", "v"} THEN UpperChar(cs[i]) ELSE cs[i]]
    IN IF StartsWith(normalized, <<"#">>)
       THEN LET b    == MajorDegree(Tail(normalized))
                base == IF b = -1 \/ b = 0 THEN 0 ELSE b
            IN base % 12
       ELSE IF MajorDegree(normalized) # -1 THEN MajorDegree(normalized)
       ELSE IF MajorDegree(toUpperCase(cs)) # -1 THEN MajorDegree(toUpperCase(cs))
       ELSE 0

getDegreeInterval(degree) ==
    LET cs         == Chars(degree)
        normalized == [i \in 1..Len(cs) |->
                          IF cs[i] \in {"i", "v"} THEN UpperChar(cs[i]) ELSE cs[i]]
    IN IF StartsWith(normalized, <<"#">>)
       THEN LET b    == MajorDegree(Tail(normalized))
                base == IF b = -1 \/ b = 0 THEN 0 ELSE b
            IN (base + 1) % 12
       ELSE IF MajorDegree(normalized) # -1 THEN MajorDegree(normalized)
       ELSE IF MajorDegree(toUpperCase(cs)) # -1 THEN MajorDegree(toUpperCase(cs))
       ELSE 0

\* Lines 968-1009: the option list by function and the dominant-function flag.
QualityClass(degree, isMinorKey) ==
    LET upperDegree == toUpperCase(Chars(degree))
        Opt(o, dom) == [options |-> o, isDominantFunction |-> dom]
    IN IF degree \in {"II", "III", "VI", "#IV"} THEN Opt(QUALITY_OPTIONS.dominant, TRUE)
       ELSE IF degree = "bII" THEN Opt(<<"7", "7#11", "9", "13">>, FALSE)
       ELSE IF degree \in {"bIII", "bVI", "bVII"} THEN Opt(<<"maj7", "7", "maj9">>, FALSE)
       ELSE IF degree = "iv" THEN Opt(QUALITY_OPTIONS.minor, FALSE)
       ELSE IF degree = "vii" \/ (degree = "ii" /\ isMinorKey)
            THEN Opt(QUALITY_OPTIONS.halfDim, FALSE)
       ELSE IF upperDegree = <<"V">> THEN Opt(QUALITY_OPTIONS.dominant, TRUE)
       ELSE IF degree \in {"ii", "iii", "vi", "v"}
               \/ (isMinorKey /\ toLowerCase(Chars(degree)) \in {<<"i">>, <<"i", "v">>})
            THEN Opt(QUALITY_OPTIONS.minor, FALSE)
       ELSE IF upperDegree = <<"I">>
            THEN Opt(IF isMinorKey THEN QUALITY_OPTIONS.minor ELSE QUALITY_OPTIONS.tonic, FALSE)
       ELSE IF upperDegree = <<"I", "V">> THEN Opt(QUALITY_OPTIONS.subdominant, FALSE)
       ELSE Opt(<<"7", "maj7", "m7">>, FALSE)

\* QualityOptions without the context override.
QualityOptions_NoContext(degree, nextDegreeHint, isMinorKey) ==
    QualityClass(degree, isMinorKey).options

\* Lines 1012-1024: the option list after the context override.
QualityOptions(degree, nextDegreeHint, isMinorKey) ==
    LET c == QualityClass(degree, isMinorKey)
    IN IF c.isDominantFunction /\ nextDegreeHint # Null
       THEN LET minorTargets    == {"ii", "iii", "vi", "i", "iv", "v"}
                resolvesToMinor == nextDegreeHint \in minorTargets
                                   \/ (isMinorKey /\ nextDegreeHint = "I")
            IN IF resolvesToMinor THEN QUALITY_OPTIONS.dominantToMinor
                                  ELSE QUALITY_OPTIONS.dominantToMajor
       ELSE c.options

Min(a, b) == IF a < b THEN a ELSE b

\* PickQuality with Math.ceil for Math.floor in maxIndex.
PickQuality_Ceil(options, complexity, r) ==
    LET maxIndex == (Unit + (Len(options) - 1) * complexity + Unit - 1) \div Unit
        index    == (r * maxIndex) \div Unit
    IN options[Min(index, Len(options) - 1) + 1]

\* Lines 1028-1031: the complexity-weighted pick, with Math.random() = r/Unit.
PickQuality(options, complexity, r) ==
    LET maxIndex == (Unit + (Len(options) - 1) * complexity) \div Unit
        index    == (r * maxIndex) \div Unit
    IN options[Min(index, Len(options) - 1) + 1]

\* getChordQuality with Math.random() = r/Unit.
getChordQuality(t, degree, nextDegreeHint, r) ==
    PickQuality(QualityOptions(degree, nextDegreeHint, t.currentKey.mode = "minor"),
                t.settings.complexity, r)

formatDegree(degree) ==
    CASE degree = "bII"  -> "[flat]II"
      [] degree = "bIII" -> "[flat]III"
      [] degree = "bVI"  -> "[flat]VI"
      [] degree = "bVII" -> "[flat]VII"
      [] degree = "bV"   -> "[flat]V"
      [] degree = "#IV"  -> "[sharp]IV"
      [] OTHER           -> degree

\* FormatRules with the minor rules ahead of the others.
FormatRules_MinorFirst ==
    << <<"m7", "-7">>, <<"m9", "-9">>, <<"m11", "-11">>, <<"m6", "-6">>,
       <<"m69", "-6/9">>, <<"69", "6/9">>,
       <<"maj7", "[Delta]7">>, <<"maj9", "[Delta]9">>, <<"m7b5", "[oslash]7">>,
       <<"dim7", "[degree]7">>, <<"7alt", "7alt">>, <<"7#11", "7[sharp]11">>,
       <<"7b9", "7[flat]9">>, <<"7#9", "7[sharp]9">> >>

\* The replace chain of formatChordName, in its order.
FormatRules ==
    << <<"maj7", "[Delta]7">>, <<"maj9", "[Delta]9">>, <<"m7b5", "[oslash]7">>,
       <<"dim7", "[degree]7">>, <<"7alt", "7alt">>, <<"7#11", "7[sharp]11">>,
       <<"7b9", "7[flat]9">>, <<"7#9", "7[sharp]9">>, <<"m7", "-7">>, <<"m9", "-9">>,
       <<"m11", "-11">>, <<"m6", "-6">>, <<"m69", "-6/9">>, <<"69", "6/9">> >>

RECURSIVE applyRules(_, _)
applyRules(q, i) ==
    IF i > Len(FormatRules) THEN q
    ELSE applyRules(Replace(q, Chars(FormatRules[i][1]), Chars(FormatRules[i][2])), i + 1)

\* The display quality is a character tuple.
formatChordName(root, quality) == [root |-> root, quality |-> applyRules(Chars(quality), 1)]

\* Lines 940-945: the chord object.
Chord(chordRoot, quality, degree) ==
    [root     |-> chordRoot,
     quality  |-> quality,
     degree   |-> formatDegree(degree),
     fullName |-> formatChordName(chordRoot, quality)]

realizeChord(t, degree, nextDegreeHint, r) ==
    LET rootInterval == getDegreeInterval(degree)
        keyRoot      == IndexOfNote(normalizeNote(t.currentKey.root))
    IN Chord(NoteAt(JsMod(keyRoot + rootInterval, 12)),
             getChordQuality(t, degree, nextDegreeHint, r),
             degree)

\* ------------------------------------------------------------------------
\* Bar generation
\* ------------------------------------------------------------------------
\* RecordDegree that never drops the oldest degree of the window.
RecordDegree_NoShift(m, g, idx) ==
    LET nextDegree == g.ret
        pushed     == Append(g.recentDegrees, nextDegree)
    IN IF nextDegree = TypeError THEN [g EXCEPT !.threw = TRUE]
       ELSE [g EXCEPT !.previousDegree = g.currentDegree,
                      !.currentDegree = nextDegree,
                      !.recentDegrees = pushed,
                      !.degrees = Append(@, nextDegree),
                      !.slots = Append(@, [bar       |-> g.barCount,
                                           idx       |-> idx,
                                           degree    |-> nextDegree,
                                           src       |-> g.src,
                                           keyAtDraw |-> m.currentKey,
                                           prev      |-> m.previousDegree,
                                           cur       |-> m.currentDegree,
                                           queue     |-> m.approachQueue,
                                           mods      |-> m.mods,
                                           window    |-> pushed])]

\* Lines 694-701: the bookkeeping of slot idx, m being `this` after
\* maybeModulate and g after getNextDegree.
RecordDegree(m, g, idx) ==
    LET nextDegree == g.ret
        pushed     == Append(g.recentDegrees, nextDegree)
    IN IF nextDegree = TypeError THEN [g EXCEPT !.threw = TRUE]
       ELSE [g EXCEPT !.previousDegree = g.currentDegree,
                      !.currentDegree = nextDegree,
                      !.recentDegrees = IF Len(pushed) > 8 THEN Tail(pushed) ELSE pushed,
                      !.degrees = Append(@, nextDegree),
                      !.slots = Append(@, [bar       |-> g.barCount,
                                           idx       |-> idx,
                                           degree    |-> nextDegree,
                                           src       |-> g.src,
                                           keyAtDraw |-> m.currentKey,
                                           prev      |-> m.previousDegree,
                                           cur       |-> m.currentDegree,
                                           queue     |-> m.approachQueue,
                                           mods      |-> m.mods,
                                           window    |->
                                               IF Len(pushed) > 8 THEN Tail(pushed)
                                                                  ELSE pushed])]

\* One iteration of the loop of phase 1 (lines 691-701), for slot idx of the bar.
ChordSlot(t, rs, idx) ==
    The({ The({ RecordDegree(m, g, idx) : g \in {getNextDegree(m, rs)} }) :
          m \in {maybeModulate([t EXCEPT !.mods = <<>>], rs)} })

RECURSIVE degreeLoop(_, _, _, _)
degreeLoop(t, rs, i, count) ==
    IF i > count \/ t.threw THEN t
    ELSE The({ degreeLoop(n, rs, i + 1, count) : n \in {ChordSlot(t, rs, i)} })

\* Phase 2 (lines 705-710): chord idx (1-based) of the bar.
RealizeAt(t, rs, idx) ==
    LET nextHint == IF idx < Len(t.degrees) THEN t.degrees[idx + 1]
                    ELSE peekLikelyNextDegree(t)
    IN realizeChord(t, t.degrees[idx], nextHint, Random(rs, t.k + idx - 1))

\* KeyChanged that compares the modes only.
KeyChanged_ModeOnly(previousKey, currentKey) ==
    previousKey.mode # currentKey.mode

\* Lines 712-713.
KeyChanged(previousKey, currentKey) ==
    previousKey.root # currentKey.root \/ previousKey.mode # currentKey.mode

\* HasTwoChords with <= for <.
HasTwoChords_OrEqual(r, twoChordProbability) == r <= twoChordProbability

\* Line 685, with Math.random() = r/Unit.
HasTwoChords(r, twoChordProbability) == r < twoChordProbability

\* Lines 705-720: the bar built once phase 1 has left `this` as t2.
BarOf(previousKey, t2, rs) ==
    [barNumber  |-> t2.barCount,
     chords     |-> [idx \in 1..Len(t2.degrees) |-> RealizeAt(t2, rs, idx)],
     key        |-> t2.currentKey,
     keyChanged |-> KeyChanged(previousKey, t2.currentKey)]

\* PushBar that keeps only the latest bar.
PushBar_KeepsLast(t2, bar) ==
    [t2 EXCEPT !.history = <<bar>>,
               !.k = @ + Len(t2.degrees),
               !.ret = <<bar>>]

\* Lines 722-723.
PushBar(t2, bar) ==
    [t2 EXCEPT !.history = Append(@, bar),
               !.k = @ + Len(t2.degrees),
               !.ret = <<bar>>]

generateBar(t0, rs) ==
    LET previousKey  == t0.currentKey
        hasTwoChords == HasTwoChords(Random(rs, 0), t0.settings.twoChordProbability)
        count        == IF hasTwoChords THEN 2 ELSE 1
    IN The({ IF t2.threw THEN [t2 EXCEPT !.ret = <<>>]
             ELSE The({ PushBar(t2, bar) : bar \in {BarOf(previousKey, t2, rs)} }) :
             t2 \in {degreeLoop([t0 EXCEPT !.barCount = @ + 1, !.k = 1, !.degrees = <<>>],
                                rs, 1, count)} })

\* ------------------------------------------------------------------------
\* Construction, reset, settings
\* ------------------------------------------------------------------------
DefaultSettings ==
    [keyStability |-> 85, adventurousness |-> 30, complexity |-> 50,
     twoChordProbability |-> 15]

randomKey(rs) ==
    LET roots == <<"C", "F", "Bb", "Eb", "Ab", "G", "D", "A">>
        modes == <<"major", "major", "major", "minor">>
    IN Key(roots[((Random(rs, 0) * Len(roots)) \div Unit) + 1],
           modes[((Random(rs, 1) * Len(modes)) \div Unit) + 1])

\* reset that leaves the bar counter running.
reset_KeepsBarCount(t, arg, rs) ==
    [t EXCEPT !.currentKey = IF arg # <<>> THEN arg[1] ELSE randomKey(rs),
              !.currentDegree = "I",
              !.previousDegree = Null,
              !.history = <<>>,
              !.recentDegrees = <<>>,
              !.approachQueue = <<>>]

\* reset of the first revision of the engine: no approach queue, no window.
reset_FirstRevision(t, arg, rs) ==
    [t EXCEPT !.currentKey = IF arg # <<>> THEN arg[1] ELSE randomKey(rs),
              !.currentDegree = "I",
              !.barCount = 0,
              !.history = <<>>]

\* reset(startingKey): arg is <<>> for no argument (null), <<key>> otherwise.
reset(t, arg, rs) ==
    [t EXCEPT !.currentKey = IF arg # <<>> THEN arg[1] ELSE randomKey(rs),
              !.currentDegree = "I",
              !.previousDegree = Null,
              !.barCount = 0,
              !.history = <<>>,
              !.recentDegrees = <<>>,
              !.approachQueue = <<>>]

\* updateSettings with the arguments of Object.assign swapped: prior values win.
updateSettings_Swapped(t, u) ==
    [t EXCEPT !.settings = [f \in (DOMAIN @) \cup (DOMAIN u) |->
                               IF f \in DOMAIN @ THEN @[f] ELSE u[f]]]

\* Object.assign(this.settings, settings) for a partial update u.
updateSettings(t, u) ==
    [t EXCEPT !.settings = [f \in (DOMAIN @) \cup (DOMAIN u) |->
                               IF f \in DOMAIN u THEN u[f] ELSE @[f]]]

\* ------------------------------------------------------------------------
\* Inputs of the model
\* ------------------------------------------------------------------------
\* Draw streams: a generateBar or reset call reads its Math.random() values
\* cyclically from one of them.  0 and 99 are the ends of [0,1): 0 is below
\* every positive threshold of the code and 99 above them all; 60 lies
\* between them (it picks the relative modulation and does not land on I).
DrawValues == {0, 60, 99}
DrawStreams ==
    {<<a, a>> : a \in DrawValues} \cup {<<0, 60>>, <<60, 0>>}

StartingKeys == {Key("C", "major"), Key("A", "minor")}

\* The 24 keys with a normalized root.
AllKeys == {Key(NOTES[i], mode) : i \in 1..12, mode \in {"major", "minor"}}

\* Draw streams for a direct call of modulate: the first draw picks the type
\* (one draw inside each of the 7 weight intervals), the second decides the
\* landing on the tonic.
ModulateStreams == {<<ty, land>> : ty \in {0, 30, 60, 80, 90, 95, 99}, land \in {0, 99}}

SettingsUpdates ==
    { [twoChordProbability |-> 0],
      [keyStability |-> 0, twoChordProbability |-> 100],
      [keyStability |-> 100, adventurousness |-> 100, complexity |-> 100,
       twoChordProbability |-> 100],
      [adventurousness |-> 0, complexity |-> 0] }

\* ------------------------------------------------------------------------
\* State
\* ------------------------------------------------------------------------
VARIABLES
    currentKey, currentDegree, previousDegree, barCount, history,
    recentDegrees, approachQueue, settings,
    threw,        \* the last operation threw
    returned,     \* <<bar>> returned by the last generateBar, else <<>>
    slots,        \* log of the chord slots since the last reset
    calls,        \* generateBar calls since the last reset
    startingKey,  \* argument of the last reset: <<>> or <<key>>
    updates,      \* updateSettings calls so far
    lastUpdate,   \* argument of the last updateSettings
    modLog,       \* direct calls of modulate: [from, type, to, this before]
    tables,       \* contents of the static tables
    input,        \* arguments of a method called on its own, else <<>>
    output,       \* values returned by the methods called on their own
    op,           \* the last operation
    app           \* the MarkovJazzApp object and the browser's timers, <<>> when
                  \* the engine is used without the app

engine == <<currentKey, currentDegree, previousDegree, barCount, history,
            recentDegrees, approachQueue, settings>>
vars == <<currentKey, currentDegree, previousDegree, barCount, history,
          recentDegrees, approachQueue, settings,
          threw, returned, slots, calls, startingKey, updates, lastUpdate,
          modLog, tables, input, output, op, app>>

\* `this` and the locals of an operation about to start.
This ==
    [currentKey |-> currentKey, currentDegree |-> currentDegree,
     previousDegree |-> previousDegree, barCount |-> barCount,
     history |-> history, recentDegrees |-> recentDegrees,
     approachQueue |-> approachQueue, settings |-> settings,
     k |-> 0, threw |-> FALSE, ret |-> <<>>, src |-> "", degrees |-> <<>>,
     mods |-> <<>>, slots |-> slots, tables |-> tables]

\* The engine fields after an operation that ended in t.
Becomes(t) ==
    /\ currentKey' = t.currentKey
    /\ currentDegree' = t.currentDegree
    /\ previousDegree' = t.previousDegree
    /\ barCount' = t.barCount
    /\ history' = t.history
    /\ recentDegrees' = t.recentDegrees
    /\ approachQueue' = t.approachQueue
    /\ settings' = t.settings
    /\ threw' = t.threw
    /\ tables' = t.tables

Init ==
    \E rs \in DrawStreams :
        /\ currentKey = randomKey(rs)
        /\ currentDegree = "I"
        /\ previousDegree = Null
        /\ barCount = 0
        /\ history = <<>>
        /\ recentDegrees = <<>>
        /\ approachQueue = <<>>
        /\ settings = DefaultSettings
        /\ threw = FALSE
        /\ returned = <<>>
        /\ slots = <<>>
        /\ calls = 0
        /\ startingKey = <<>>
        /\ updates = 0
        /\ lastUpdate = <<>>
        /\ modLog = <<>>
        /\ tables = StaticTables
        /\ input = <<>>
        /\ output = <<>>
        /\ op = "new"
        /\ app = <<>>

GenerateBar ==
    /\ calls < MaxBars
    /\ \E rs \in DrawStreams : \E this \in {This} : \E t \in {generateBar(this, rs)} :
           /\ Becomes(t)
           /\ returned' = t.ret
           /\ slots' = t.slots
    /\ calls' = calls + 1
    /\ op' = "generateBar"
    /\ UNCHANGED app
    /\ UNCHANGED <<startingKey, updates, lastUpdate, modLog, input, output>>

Reset ==
    /\ \/ \E key \in StartingKeys : \E t \in {reset(This, <<key>>, <<0>>)} :
              /\ Becomes(t)
              /\ startingKey' = <<key>>
       \/ \E rs \in DrawStreams : \E t \in {reset(This, <<>>, rs)} :
              /\ Becomes(t)
              /\ startingKey' = <<>>
    /\ returned' = <<>>
    /\ slots' = <<>>
    /\ calls' = 0
    /\ op' = "reset"
    /\ UNCHANGED app
    /\ UNCHANGED <<updates, lastUpdate, modLog, input, output>>

UpdateSettings ==
    /\ updates < MaxUpdates
    /\ \E u \in SettingsUpdates : \E t \in {updateSettings(This, u)} :
           /\ Becomes(t)
           /\ lastUpdate' = u
    /\ updates' = updates + 1
    /\ op' = "updateSettings"
    /\ UNCHANGED app
    /\ UNCHANGED <<returned, slots, calls, startingKey, modLog, input, output>>

Next == GenerateBar \/ Reset \/ UpdateSettings

Spec == Init /\ [][Next]_vars

\* ------------------------------------------------------------------------
\* modulate on its own: from every key, up to MaxModulations calls in a row.
\* ------------------------------------------------------------------------
InitModulate ==
    /\ currentKey \in AllKeys
    /\ currentDegree \in {"I", "ii"}
    /\ previousDegree = Null
    /\ barCount = 0
    /\ history = <<>>
    /\ recentDegrees = <<>>
    /\ approachQueue = <<>>
    /\ settings = DefaultSettings
    /\ threw = FALSE
    /\ returned = <<>>
    /\ slots = <<>>
    /\ calls = 0
    /\ startingKey = <<>>
    /\ updates = 0
    /\ lastUpdate = <<>>
    /\ modLog = <<>>
    /\ tables = StaticTables
    /\ input = <<>>
    /\ output = <<>>
    /\ op = "new"
    /\ app = <<>>

Modulate ==
    /\ Len(modLog) < MaxModulations
    /\ \E rs \in ModulateStreams : \E this \in {This} : \E t \in {modulate(this, rs)} :
           /\ Becomes(t)
           /\ modLog' = Append(modLog, [from   |-> currentKey,
                                        type   |-> t.mods[Len(t.mods)],
                                        to     |-> t.currentKey,
                                        degree |-> currentDegree])
    /\ op' = "modulate"
    /\ UNCHANGED app
    /\ UNCHANGED <<returned, slots, calls, startingKey, updates, lastUpdate,
                   input, output>>

NextModulate == Modulate

SpecModulate == InitModulate /\ [][NextModulate]_vars

\* ------------------------------------------------------------------------
\* getChordQuality on its own: every degree and hint of the vocabulary, in a
\* major and a minor key, at three complexities.
\* ------------------------------------------------------------------------
\* The degree symbols of the tables (sources, destinations, approach chords
\* and MAJOR_DEGREES), and the lower-case tonic named by minorTargets.
Degrees ==
    {"I", "ii", "iii", "IV", "V", "vi", "vii", "bII", "bIII", "bVI", "bVII", "iv",
     "II", "III", "VI", "#IV", "v", "i", "VII", "bV"}

\* One draw inside each eighth of [0,1), and both ends.
QualityDraws == {0, 13, 25, 38, 50, 63, 75, 88, 99}

Complexities == {0, 50, 100}

\* An engine just constructed, then given a key and settings.
Constructed(key, s) ==
    /\ currentKey = key
    /\ currentDegree = "I"
    /\ previousDegree = Null
    /\ barCount = 0
    /\ history = <<>>
    /\ recentDegrees = <<>>
    /\ approachQueue = <<>>
    /\ settings = s
    /\ threw = FALSE
    /\ returned = <<>>
    /\ slots = <<>>
    /\ calls = 0
    /\ startingKey = <<key>>
    /\ updates = 0
    /\ lastUpdate = <<>>
    /\ modLog = <<>>
    /\ tables = StaticTables
    /\ output = <<>>
    /\ op = "new"
    /\ app = <<>>

InitQuality ==
    \E key \in StartingKeys, c \in Complexities :
        /\ Constructed(key, [DefaultSettings EXCEPT !.complexity = c])
        /\ input \in [degree : Degrees, nextDegreeHint : Degrees \cup {Null}]

GetChordQuality ==
    /\ \E r \in QualityDraws :
           output' = <<getChordQuality(This, input.degree, input.nextDegreeHint, r)>>
    /\ op' = "getChordQuality"
    /\ UNCHANGED app
    /\ UNCHANGED <<engine, threw, returned, slots, calls, startingKey, updates,
                   lastUpdate, modLog, tables, input>>

NextQuality == GetChordQuality

SpecQuality == InitQuality /\ [][NextQuality]_vars

\* ------------------------------------------------------------------------
\* formatChordName on its own: every root with every quality token.
\* ------------------------------------------------------------------------
\* The quality tokens of QUALITY_OPTIONS and of the inline lists of
\* getChordQuality.
QualityTokens ==
    {"maj7", "maj9", "6", "69", "maj7#11", "7", "m7", "9", "13", "7#11", "7alt",
     "7b9", "7#9", "sus4", "m9", "m11", "m6", "m69", "m7b5", "[oslash]7", "dim7",
     "[degree]7"}

InitFormat ==
    /\ Constructed(Key("C", "major"), DefaultSettings)
    /\ input \in [root : {NOTES[i] : i \in 1..12}, quality : QualityTokens]

FormatChordName ==
    /\ op = "new"
    /\ output' = <<formatChordName(input.root, input.quality)>>
    /\ op' = "formatChordName"
    /\ UNCHANGED app
    /\ UNCHANGED <<engine, threw, returned, slots, calls, startingKey, updates,
                   lastUpdate, modLog, tables, input>>

NextFormat == FormatChordName

SpecFormat == InitFormat /\ [][NextFormat]_vars

\* ------------------------------------------------------------------------
\* The two shaping passes on their own (steps 5 and 6 of getNextDegree):
\* adjustForAdventurousness on a raw distribution, then applyAntiRepetition
\* on its result.
\* ------------------------------------------------------------------------
\* Raw distributions of 10, 8, 9, 3 and 6 entries.
RawDistributions ==
    { Get(DEGREE_TRANSITIONS, "I"), Get(DEGREE_TRANSITIONS, "V"),
      Get(MINOR_DEGREE_TRANSITIONS, "I"), Get(DEGREE_TRANSITIONS, "#IV"),
      Get(SECOND_ORDER_OVERRIDES, <<"ii", "V">>) }

\* Recent-degree windows of 0, 2, 3, 5 and 8 degrees along transitions of the
\* major table.
Windows ==
    { <<>>, <<"V", "V">>, <<"ii", "V", "I">>, <<"V", "V", "I">>,
      <<"V", "I", "V", "I", "V">>,
      <<"I", "I", "I", "I", "vi", "vi", "IV", "ii">>,
      <<"ii", "V", "I", "ii", "V", "I", "ii", "V">> }

Adventures == {0, 30, 100}

InitShape ==
    \E a \in Adventures :
        /\ currentKey = Key("C", "major")
        /\ currentDegree = "I"
        /\ previousDegree = Null
        /\ barCount = 0
        /\ history = <<>>
        /\ recentDegrees \in Windows
        /\ approachQueue = <<>>
        /\ settings = [DefaultSettings EXCEPT !.adventurousness = a]
        /\ threw = FALSE
        /\ returned = <<>>
        /\ slots = <<>>
        /\ calls = 0
        /\ startingKey = <<>>
        /\ updates = 0
        /\ lastUpdate = <<>>
        /\ modLog = <<>>
        /\ tables = StaticTables
        /\ input \in [transitions : RawDistributions]
        /\ output = <<>>
        /\ op = "new"
        /\ app = <<>>

AdjustForAdventurousness ==
    /\ op = "new"
    /\ output' = <<adjustForAdventurousness(This, Dist(input.transitions, Unit))>>
    /\ op' = "adjustForAdventurousness"
    /\ UNCHANGED app
    /\ UNCHANGED <<engine, threw, returned, slots, calls, startingKey, updates,
                   lastUpdate, modLog, tables, input>>

ApplyAntiRepetition ==
    /\ op = "adjustForAdventurousness"
    /\ output' = Append(output, applyAntiRepetition(This, output[1]))
    /\ op' = "applyAntiRepetition"
    /\ UNCHANGED app
    /\ UNCHANGED <<engine, threw, returned, slots, calls, startingKey, updates,
                   lastUpdate, modLog, tables, input>>

\* Line 830: the draw from the shaped distribution.
DrawShaped ==
    /\ op = "applyAntiRepetition"
    /\ \E r \in QualityDraws : output' = Append(output, weightedRandom(output[2].e, r))
    /\ op' = "drawShaped"
    /\ UNCHANGED app
    /\ UNCHANGED <<engine, threw, returned, slots, calls, startingKey, updates,
                   lastUpdate, modLog, tables, input>>

NextShape == AdjustForAdventurousness \/ ApplyAntiRepetition \/ DrawShaped

SpecShape == InitShape /\ [][NextShape]_vars

\* ------------------------------------------------------------------------
\* A long session: two chords in every bar, MaxLongBars bars after a reset,
\* so that the recent-degree window fills and starts dropping degrees.
\* ------------------------------------------------------------------------
InitLong ==
    /\ Constructed(Key("C", "major"), [DefaultSettings EXCEPT !.twoChordProbability = Unit])
    /\ input = <<>>

GenerateBarLong ==
    /\ calls < MaxLongBars
    /\ \E rs \in DrawStreams : \E this \in {This} : \E t \in {generateBar(this, rs)} :
           /\ Becomes(t)
           /\ returned' = t.ret
           /\ slots' = t.slots
    /\ calls' = calls + 1
    /\ op' = "generateBar"
    /\ UNCHANGED app
    /\ UNCHANGED <<startingKey, updates, lastUpdate, modLog, input, output>>

ResetLong ==
    /\ \E key \in {Key("C", "major")} : \E t \in {reset(This, <<key>>, <<0>>)} :
           /\ Becomes(t)
           /\ startingKey' = <<key>>
    /\ returned' = <<>>
    /\ slots' = <<>>
    /\ calls' = 0
    /\ op' = "reset"
    /\ UNCHANGED app
    /\ UNCHANGED <<updates, lastUpdate, modLog, input, output>>

NextLong == GenerateBarLong \/ ResetLong

SpecLong == InitLong /\ [][NextLong]_vars

\* ------------------------------------------------------------------------
\* The complexity-weighted pick on its own (lines 1026-1031): every option
\* list of getChordQuality at six complexities, called once per draw of
\* PickDraws in turn; output collects the picks.
\* ------------------------------------------------------------------------
OptionLists ==
    { QUALITY_OPTIONS.tonic, QUALITY_OPTIONS.subdominant, QUALITY_OPTIONS.dominant,
      QUALITY_OPTIONS.dominantToMinor, QUALITY_OPTIONS.dominantToMajor,
      QUALITY_OPTIONS.minor, QUALITY_OPTIONS.halfDim,
      <<"7", "7#11", "9", "13">>, <<"maj7", "7", "maj9">>, <<"7", "maj7", "m7">> }

PickComplexities == {0, 25, 50, 75, 99, 100}

\* One draw inside each eighth of [0,1), and both ends, in rising order.
PickDraws == <<0, 13, 25, 38, 50, 63, 75, 88, 99>>

InitPick ==
    /\ Constructed(Key("C", "major"), DefaultSettings)
    /\ input \in [options : OptionLists, complexity : PickComplexities]

Pick ==
    /\ Len(output) < Len(PickDraws)
    /\ output' = Append(output, PickQuality(input.options, input.complexity,
                                            PickDraws[Len(output) + 1]))
    /\ op' = "pickQuality"
    /\ UNCHANGED app
    /\ UNCHANGED <<engine, threw, returned, slots, calls, startingKey, updates,
                   lastUpdate, modLog, tables, input>>

NextPick == Pick

SpecPick == InitPick /\ [][NextPick]_vars

\* ------------------------------------------------------------------------
\* realizeChord called directly (lines 932-957): any key, named by a
\* normalized root or by a sharp that normalizeNote folds, and any degree
\* symbol, among them sharps of other numerals, a lower-case flat and a
\* symbol that is in no table.
\* ------------------------------------------------------------------------
RealizeKeys == AllKeys \cup {Key("C#", "major"), Key("F#", "minor"), Key("A#", "major")}

RealizeDegrees == Degrees \cup {"#I", "#V", "#VII", "bii", "X", "#X"}

InitRealize ==
    \E key \in RealizeKeys :
        /\ Constructed(key, DefaultSettings)
        /\ input \in [degree : RealizeDegrees, nextDegreeHint : {Null, "I"}]

RealizeChord ==
    /\ \E r \in {0, 99} :
           output' = <<realizeChord(This, input.degree, input.nextDegreeHint, r)>>
    /\ op' = "realizeChord"
    /\ UNCHANGED app
    /\ UNCHANGED <<engine, threw, returned, slots, calls, startingKey, updates,
                   lastUpdate, modLog, tables, input>>

NextRealize == RealizeChord

SpecRealize == InitRealize /\ [][NextRealize]_vars

\* ------------------------------------------------------------------------
\* The methods generateBar calls, called by a client between bars:
\* maybeModulate, modulate and peekLikelyNextDegree in any order with
\* generateBar, on an engine with the default settings or with every
\* setting at 1.
\* ------------------------------------------------------------------------
CallSettings ==
    { DefaultSettings,
      [keyStability |-> Unit, adventurousness |-> Unit, complexity |-> Unit,
       twoChordProbability |-> Unit] }

\* Draw streams of a maybeModulate call: the draw against the chance, the
\* type, the landing.  0.2 is below the doubled chance of the defaults and
\* above the single one.
MaybeModulateStreams == {<<99, 0, 0>>, <<0, 0, 0>>, <<0, 80, 99>>, <<20, 60, 99>>}

InitCalls ==
    \E key \in StartingKeys, s \in CallSettings :
        /\ Constructed(key, s)
        /\ input = <<>>

\* The client makes at most MaxCalls calls that change the engine.
CallsLeft == calls + Len(modLog) < MaxCalls

GenerateBarCall == CallsLeft /\ GenerateBar

MaybeModulate ==
    /\ CallsLeft
    /\ \E rs \in MaybeModulateStreams : \E this \in {This} :
       \E t \in {maybeModulate(this, rs)} :
           /\ Becomes(t)
           /\ modLog' = Append(modLog, [from   |-> currentKey,
                                        type   |-> IF t.mods = <<>> THEN Null
                                                   ELSE t.mods[Len(t.mods)],
                                        to     |-> t.currentKey,
                                        degree |-> currentDegree])
    /\ op' = "maybeModulate"
    /\ UNCHANGED app
    /\ UNCHANGED <<returned, slots, calls, startingKey, updates, lastUpdate,
                   input, output>>

\* modulate called directly: a fifth up landing on 'I', or to the parallel
\* key keeping the degree.
ModulateCall ==
    /\ CallsLeft
    /\ \E rs \in {<<0, 0>>, <<80, 99>>} : \E this \in {This} :
       \E t \in {modulate(this, rs)} :
           /\ Becomes(t)
           /\ modLog' = Append(modLog, [from   |-> currentKey,
                                        type   |-> t.mods[Len(t.mods)],
                                        to     |-> t.currentKey,
                                        degree |-> currentDegree])
    /\ op' = "modulate"
    /\ UNCHANGED app
    /\ UNCHANGED <<returned, slots, calls, startingKey, updates, lastUpdate,
                   input, output>>

PeekLikelyNextDegree ==
    /\ output' = <<peekLikelyNextDegree(This)>>
    /\ op' = "peekLikelyNextDegree"
    /\ UNCHANGED app
    /\ UNCHANGED <<engine, threw, returned, slots, calls, startingKey, updates,
                   lastUpdate, modLog, tables, input>>

NextCalls == GenerateBarCall \/ MaybeModulate \/ ModulateCall \/ PeekLikelyNextDegree

SpecCalls == InitCalls /\ [][NextCalls]_vars

\* ------------------------------------------------------------------------
\* One step of the degree chain from every position the chain can be in:
\* a mode, and a (previous, current) pair that a draw, an approach
\* sequence or a modulation landing on 'I' produces; the queue is empty.
\* ------------------------------------------------------------------------
\* The destinations of the first-order draw from degree d in a mode.
FirstOrderDestinations(mode, d) ==
    LET table == IF mode = "minor" THEN MINOR_DEGREE_TRANSITIONS ELSE DEGREE_TRANSITIONS
    IN Keys(IF Has(table, d) THEN Get(table, d)
            ELSE IF Has(DEGREE_TRANSITIONS, d) THEN Get(DEGREE_TRANSITIONS, d)
            ELSE Get(DEGREE_TRANSITIONS, "I"))

\* Degrees getNextDegree can return.
EmittedDegrees ==
    UNION {Keys(DEGREE_TRANSITIONS[i].w) : i \in 1..Len(DEGREE_TRANSITIONS)}
    \cup UNION {Keys(MINOR_DEGREE_TRANSITIONS[i].w) : i \in 1..Len(MINOR_DEGREE_TRANSITIONS)}
    \cup UNION {Keys(SECOND_ORDER_OVERRIDES[i].w) : i \in 1..Len(SECOND_ORDER_OVERRIDES)}
    \cup UNION {Range3(APPROACH_SEQUENCES[i].w.chords) : i \in 1..Len(APPROACH_SEQUENCES)}

\* cur can be the current degree when prev is the previous one.
CanFollow(prev, cur) ==
    IF prev = Null THEN cur = "I"
    ELSE \/ cur = "I"
         \/ \E mode \in {"major", "minor"} : cur \in FirstOrderDestinations(mode, prev)
         \/ \E i \in 1..Len(SECOND_ORDER_OVERRIDES) :
                /\ SECOND_ORDER_OVERRIDES[i].k[2] = prev
                /\ cur \in Keys(SECOND_ORDER_OVERRIDES[i].w)
         \/ \E i \in 1..Len(APPROACH_SEQUENCES) :
                LET chords == APPROACH_SEQUENCES[i].w.chords
                IN \/ chords[1] = cur /\ APPROACH_SEQUENCES[i].k # prev
                   \/ chords[1] = prev /\ chords[2] = cur
                   \/ chords[2] = prev /\ chords[3] = cur

InitStep ==
    \E key \in StartingKeys :
        /\ Constructed(key, DefaultSettings)
        /\ input \in {p \in [previousDegree : EmittedDegrees \cup {Null},
                              currentDegree : EmittedDegrees] :
                          CanFollow(p.previousDegree, p.currentDegree)}

\* The engine at the position input names.
AtStep == [This EXCEPT !.previousDegree = input.previousDegree,
                       !.currentDegree = input.currentDegree]

\* Lines 807-822 of getNextDegree: the distribution selected for the draw.
SelectTransitions ==
    /\ output' = <<[override    |-> HasOverride(AtStep),
                    transitions |-> IF HasOverride(AtStep) THEN OverrideFor(AtStep)
                                                           ELSE FirstOrder(AtStep)]>>
    /\ op' = "selectTransitions"
    /\ UNCHANGED app
    /\ UNCHANGED <<engine, threw, returned, slots, calls, startingKey, updates,
                   lastUpdate, modLog, tables, input>>

PeekAtStep ==
    /\ output' = <<peekLikelyNextDegree(AtStep)>>
    /\ op' = "peekLikelyNextDegree"
    /\ UNCHANGED app
    /\ UNCHANGED <<engine, threw, returned, slots, calls, startingKey, updates,
                   lastUpdate, modLog, tables, input>>

\* tryStartApproach, which getNextDegree calls with an empty queue.
TryStartApproach ==
    /\ \E r \in {0, 30, 60, 99} : \E t \in {tryStartApproach(AtStep, <<r>>)} :
           output' = <<[queued |-> t.ret, approachQueue |-> t.approachQueue]>>
    /\ op' = "tryStartApproach"
    /\ UNCHANGED app
    /\ UNCHANGED <<engine, threw, returned, slots, calls, startingKey, updates,
                   lastUpdate, modLog, tables, input>>

NextStep == SelectTransitions \/ PeekAtStep \/ TryStartApproach

SpecStep == InitStep /\ [][NextStep]_vars

\* ------------------------------------------------------------------------
\* weightedRandom on its own (lines 1071-1082): every distribution of the
\* tables, and mappings no table holds: all weights zero, some zero, a zero
\* total of opposite weights, a negative total.
\* ------------------------------------------------------------------------
MalformedWeights ==
    { <<E("I", 0)>>, <<E("I", 0), E("V", 0)>>, <<E("ii", 0), E("V", 0), E("I", 0)>>,
      <<E("I", 0), E("V", 50)>>, <<E("I", 50), E("V", 0)>>,
      <<E("I", -50), E("V", 50)>>, <<E("V", -10), E("I", -50)>> }

WeightedInputs ==
    {DEGREE_TRANSITIONS[i].w : i \in 1..Len(DEGREE_TRANSITIONS)}
    \cup {MINOR_DEGREE_TRANSITIONS[i].w : i \in 1..Len(MINOR_DEGREE_TRANSITIONS)}
    \cup {SECOND_ORDER_OVERRIDES[i].w : i \in 1..Len(SECOND_ORDER_OVERRIDES)}
    \cup {KEY_MODULATIONS}
    \cup MalformedWeights

InitWeighted ==
    /\ Constructed(Key("C", "major"), DefaultSettings)
    /\ input \in [weights : WeightedInputs]

WeightedRandom ==
    /\ \E r \in QualityDraws : output' = <<weightedRandom(input.weights, r)>>
    /\ op' = "weightedRandom"
    /\ UNCHANGED app
    /\ UNCHANGED <<engine, threw, returned, slots, calls, startingKey, updates,
                   lastUpdate, modLog, tables, input>>

NextWeighted == WeightedRandom

SpecWeighted == InitWeighted /\ [][NextWeighted]_vars

\* ------------------------------------------------------------------------
\* getNextDegree on its own (lines 792-831) from every position of the
\* chain, with an empty queue or inside an approach sequence, at three
\* adventurousness settings and three windows, for draws over [0,1).
\* ------------------------------------------------------------------------
\* Positions inside an approach sequence: after its first degree the last
\* two are queued, after its second the last one; a modulation may have
\* replaced the current degree by 'I'.
QueuedPositions ==
    UNION {LET chords == APPROACH_SEQUENCES[i].w.chords
           IN {[previousDegree |-> p, currentDegree |-> c,
                approachQueue |-> <<chords[2], chords[3]>>] :
                   p \in {q \in EmittedDegrees \cup {Null} : CanFollow(q, chords[1])},
                   c \in {chords[1], "I"}}
              \cup {[previousDegree |-> chords[1], currentDegree |-> c,
                     approachQueue |-> <<chords[3]>>] : c \in {chords[2], "I"}}
           : i \in 1..Len(APPROACH_SEQUENCES)}

EmptyQueuePositions ==
    {x \in [previousDegree : EmittedDegrees \cup {Null},
            currentDegree : EmittedDegrees,
            approachQueue : {<<>>}] : CanFollow(x.previousDegree, x.currentDegree)}

DrawWindows == {<<>>, <<"ii", "V", "I">>, <<"I", "I", "I", "I", "vi", "vi", "IV", "ii">>}

\* The draw against APPROACH_PROBABILITY, then the draw of the target or
\* of the degree.
NextDegreeStreams == {<<a, r>> : a \in {0, 99}, r \in {5 * n : n \in 0..19} \cup {99}}

InitDraw ==
    \E key \in StartingKeys, a \in Adventures, w \in DrawWindows :
        /\ Constructed(key, [DefaultSettings EXCEPT !.adventurousness = a])
        /\ \E p \in QueuedPositions \cup EmptyQueuePositions :
               input = [previousDegree |-> p.previousDegree,
                        currentDegree |-> p.currentDegree,
                        approachQueue |-> p.approachQueue,
                        recentDegrees |-> w]

\* The engine at the position input names.
AtDraw == [AtStep EXCEPT !.approachQueue = input.approachQueue,
                         !.recentDegrees = input.recentDegrees]

GetNextDegree ==
    /\ op = "new"
    /\ \E rs \in NextDegreeStreams : \E t \in {getNextDegree(AtDraw, rs)} :
           output' = <<[degree |-> t.ret, src |-> t.src, approachQueue |-> t.approachQueue]>>
    /\ op' = "getNextDegree"
    /\ UNCHANGED app
    /\ UNCHANGED <<engine, threw, returned, slots, calls, startingKey, updates,
                   lastUpdate, modLog, tables, input>>

NextDraw == GetNextDegree

SpecDraw == InitDraw /\ [][NextDraw]_vars

\* ---------------------------------------------------------------------------
\* The application (app.js): MarkovJazzApp around one engine, driven by the
\* browser's events. The app record holds the object's fields under their
\* names, the state of the browser the handlers read or arm (innerWidth, the
\* running interval timers, the pending scroll and resize timeouts), and one
\* log field, leftFirstRow. The metronome and the DOM are output only.
\* ---------------------------------------------------------------------------

\* Largest bar index the user or the timer advances to.
MaxBarIndex == 2

\* Most scroll animations pending at once.
MaxPendingScrolls == 1

\* Math.random() as the app's engine sees it.
AppDraws == <<60, 60>>

\* window.innerWidth of a phone and of a desktop.
Widths == {500, 1024}

\* Values of the tempo slider.
Tempos == {200}

getResponsiveBarsPerRow(innerWidth) == IF innerWidth <= 600 THEN 2 ELSE 4

getVisibleRows(innerWidth) == IF innerWidth <= 600 THEN 3 ELSE 3

\* The loop of generateRow: n more bars from the engine, in order.
RECURSIVE generateRowLoop(_, _, _)
generateRowLoop(a, n, bars) ==
    IF n = 0
    THEN [a EXCEPT !.ret = [bars |-> bars]]
    ELSE LET t == generateBar(a.engine, AppDraws)
         IN  generateRowLoop([a EXCEPT !.engine = t], n - 1,
                             bars \o t.ret)

generateRow(a) == generateRowLoop(a, a.barsPerRow, <<>>)

\* this.rows.push(this.generateRow())
PushRow(a) ==
    LET g == generateRow(a) IN [g EXCEPT !.rows = Append(a.rows, g.ret)]

\* while (this.rows.length < this.displayedRowStart + this.visibleRows) push
RECURSIVE EnsureRows(_)
EnsureRows(a) ==
    IF Len(a.rows) < a.displayedRowStart + a.visibleRows
    THEN EnsureRows(PushRow(a))
    ELSE a

RECURSIVE initRowsLoop(_, _)
initRowsLoop(a, i) ==
    IF i < a.visibleRows THEN initRowsLoop(PushRow(a), i + 1) ELSE a

initRows(a) ==
    initRowsLoop([a EXCEPT !.rows = <<>>, !.currentBarIndex = 0,
                           !.displayedRowStart = 0], 0)

\* The bar under the cursor as <<bar>>, or <<>> for the null returned when
\* the row or the bar is not there.
getCurrentBar(a) ==
    LET rowIdx == a.currentBarIndex \div a.barsPerRow
        posIdx == a.currentBarIndex % a.barsPerRow
    IN  IF /\ rowIdx + 1 <= Len(a.rows)
           /\ posIdx + 1 <= Len(a.rows[rowIdx + 1].bars)
        THEN <<a.rows[rowIdx + 1].bars[posIdx + 1]>>
        ELSE <<>>

\* this.intervalId when no timer is held: null, falsy as 0 is; the handles
\* setInterval returns are positive.
NoInterval == 0

\* setInterval: a handle no running timer has.
FreshInterval(a) == CHOOSE id \in 1..(Cardinality(a.intervals) + 1) : id \notin a.intervals

startTimer(a) ==
    LET id == FreshInterval(a)
    IN  [a EXCEPT !.intervalId = id, !.intervals = a.intervals \cup {id}]

stopTimer(a) ==
    IF a.intervalId # NoInterval
    THEN [a EXCEPT !.intervals = a.intervals \ {a.intervalId},
                   !.intervalId = NoInterval]
    ELSE a

play(a) == startTimer([a EXCEPT !.isPlaying = TRUE])

pause(a) == stopTimer([a EXCEPT !.isPlaying = FALSE])

togglePlay(a) == IF a.isPlaying THEN pause(a) ELSE play(a)

\* The animation is started and its completion armed for 600 ms later.
scrollToNextRow(a) == [a EXCEPT !.scrollTimeouts = a.scrollTimeouts + 1]

advanceBar(a) ==
    LET a1 == [a EXCEPT !.currentBarIndex = a.currentBarIndex + 1]
        currentRow == a1.currentBarIndex \div a1.barsPerRow
        positionInRow == a1.currentBarIndex % a1.barsPerRow
        a2 == [a1 EXCEPT !.leftFirstRow = a1.leftFirstRow \/ currentRow > 0]
    IN  IF positionInRow = 0 /\ currentRow > a2.displayedRowStart
        THEN scrollToNextRow(a2)
        ELSE a2

\* tick that advances the bar on the fourth beat itself.
tick_AdvancesOnFour(a) ==
    LET a1 == [a EXCEPT !.currentBeat = a.currentBeat + 1]
    IN  IF a1.currentBeat >= 4
        THEN advanceBar([a1 EXCEPT !.currentBeat = 1])
        ELSE a1

tick(a) ==
    LET a1 == [a EXCEPT !.currentBeat = a.currentBeat + 1]
    IN  IF a1.currentBeat > 4
        THEN advanceBar([a1 EXCEPT !.currentBeat = 1])
        ELSE a1

\* The callback scrollToNextRow arms.
scrollDone(a) ==
    EnsureRows([a EXCEPT !.displayedRowStart = a.displayedRowStart + 1,
                         !.scrollTimeouts = a.scrollTimeouts - 1])

\* The tempo handler that starts a timer without stopping the running one.
tempoInput_NoStop(a, v) ==
    LET a1 == [a EXCEPT !.tempo = v]
    IN  IF a1.isPlaying THEN startTimer(a1) ELSE a1

tempoInput(a, v) ==
    LET a1 == [a EXCEPT !.tempo = v]
    IN  IF a1.isPlaying THEN startTimer(stopTimer(a1)) ELSE a1

\* MarkovJazzApp.reset
appReset(a) ==
    LET a1 == [pause(a) EXCEPT !.currentBeat = 0]
        a2 == [a1 EXCEPT !.engine = reset(a1.engine, <<>>, AppDraws),
                         !.barsPerRow = getResponsiveBarsPerRow(a.innerWidth),
                         !.visibleRows = getVisibleRows(a.innerWidth),
                         !.leftFirstRow = FALSE]
    IN  initRows(a2)

RECURSIVE AllBars(_)
AllBars(rows) ==
    IF rows = <<>> THEN <<>> ELSE Head(rows).bars \o AllBars(Tail(rows))

\* allBars cut into rows of n, the last one possibly short.
RECURSIVE Redistribute(_, _)
Redistribute(allBars, n) ==
    IF allBars = <<>> THEN <<>>
    ELSE <<[bars |-> SubSeq(allBars, 1, Min(n, Len(allBars)))]>>
         \o Redistribute(SubSeq(allBars, n + 1, Len(allBars)), n)

\* while (lastRow && lastRow.bars.length < this.barsPerRow) push a new bar
RECURSIVE PadLastRow(_)
PadLastRow(a) ==
    IF a.rows # <<>> /\ Len(a.rows[Len(a.rows)].bars) < a.barsPerRow
    THEN LET t == generateBar(a.engine, AppDraws)
         IN  PadLastRow([a EXCEPT !.engine = t,
                                  !.rows[Len(a.rows)].bars = @ \o t.ret])
    ELSE a

\* handleResize that leaves the short last row short.
handleResize_NoPadding(a) ==
    LET newBarsPerRow == getResponsiveBarsPerRow(a.innerWidth)
        newVisibleRows == getVisibleRows(a.innerWidth)
    IN  IF newBarsPerRow # a.barsPerRow
        THEN LET a1 == [a EXCEPT !.barsPerRow = newBarsPerRow,
                                 !.visibleRows = newVisibleRows,
                                 !.rows = Redistribute(AllBars(a.rows),
                                                       newBarsPerRow)]
             IN  EnsureRows([a1 EXCEPT !.displayedRowStart =
                                 a1.currentBarIndex \div a1.barsPerRow])
        ELSE IF newVisibleRows # a.visibleRows
        THEN [a EXCEPT !.visibleRows = newVisibleRows]
        ELSE a

handleResize(a) ==
    LET newBarsPerRow == getResponsiveBarsPerRow(a.innerWidth)
        newVisibleRows == getVisibleRows(a.innerWidth)
    IN  IF newBarsPerRow # a.barsPerRow
        THEN LET a1 == [a EXCEPT !.barsPerRow = newBarsPerRow,
                                 !.visibleRows = newVisibleRows,
                                 !.rows = Redistribute(AllBars(a.rows),
                                                       newBarsPerRow)]
                 a2 == PadLastRow(a1)
             IN  EnsureRows([a2 EXCEPT !.displayedRowStart =
                                 a2.currentBarIndex \div a2.barsPerRow])
        ELSE IF newVisibleRows # a.visibleRows
        THEN [a EXCEPT !.visibleRows = newVisibleRows]
        ELSE a

\* The fields of the app record.
AppFields ==
    {"isPlaying", "tempo", "currentBeat", "barsPerRow", "visibleRows",
     "currentBarIndex", "rows", "displayedRowStart", "intervalId",
     "innerWidth", "intervals", "scrollTimeouts", "resizeTimer",
     "leftFirstRow"}

\* The app with its engine, as the handlers see it.
AppThis ==
    [f \in AppFields \cup {"engine", "ret"} |->
        IF f = "engine" THEN This ELSE IF f = "ret" THEN <<>> ELSE app[f]]

\* The app and the engine after a handler that ended in a.
AppBecomes(a) ==
    /\ app' = [f \in AppFields |-> a[f]]
    /\ Becomes(a.engine)
    /\ UNCHANGED <<returned, slots, calls, startingKey, updates, lastUpdate,
                   modLog, input, output>>

\* new MarkovJazzApp() at width w around an engine that drew key.
NewApp(key, w) ==
    initRows(
        [isPlaying |-> FALSE, tempo |-> 120, currentBeat |-> 0,
         barsPerRow |-> getResponsiveBarsPerRow(w),
         visibleRows |-> getVisibleRows(w),
         currentBarIndex |-> 0, rows |-> <<>>, displayedRowStart |-> 0,
         intervalId |-> NoInterval, innerWidth |-> w, intervals |-> {},
         scrollTimeouts |-> 0, resizeTimer |-> FALSE, leftFirstRow |-> FALSE,
         ret |-> <<>>,
         engine |-> [currentKey |-> key, currentDegree |-> "I",
                     previousDegree |-> Null, barCount |-> 0,
                     history |-> <<>>, recentDegrees |-> <<>>,
                     approachQueue |-> <<>>, settings |-> DefaultSettings,
                     k |-> 0, threw |-> FALSE, ret |-> <<>>, src |-> "",
                     degrees |-> <<>>, mods |-> <<>>, slots |-> <<>>,
                     tables |-> StaticTables]])

InitApp ==
    \E key \in {randomKey(AppDraws)}, w \in Widths :
        \E a \in {NewApp(key, w)} :
            /\ app = [f \in AppFields |-> a[f]]
            /\ currentKey = a.engine.currentKey
            /\ currentDegree = a.engine.currentDegree
            /\ previousDegree = a.engine.previousDegree
            /\ barCount = a.engine.barCount
            /\ history = a.engine.history
            /\ recentDegrees = a.engine.recentDegrees
            /\ approachQueue = a.engine.approachQueue
            /\ settings = a.engine.settings
            /\ threw = a.engine.threw
            /\ tables = a.engine.tables
            /\ returned = <<>>
            /\ slots = <<>>
            /\ calls = 0
            /\ startingKey = <<key>>
            /\ updates = 0
            /\ lastUpdate = <<>>
            /\ modLog = <<>>
            /\ input = <<>>
            /\ output = <<>>
            /\ op = "new"

\* An advance from here stays within the bounds of the model.
CanAdvance ==
    /\ app.currentBarIndex < MaxBarIndex
    /\ app.scrollTimeouts < MaxPendingScrolls

\* A running interval timer fires.
Tick ==
    /\ app.intervals # {}
    /\ app.currentBeat < 4 \/ CanAdvance
    /\ \E a \in {tick(AppThis)} : AppBecomes(a)
    /\ op' = "tick"

\* The play button, or Space.
TogglePlay ==
    /\ \E a \in {togglePlay(AppThis)} : AppBecomes(a)
    /\ op' = "togglePlay"

\* ArrowRight, which advances only while paused.
ArrowRight ==
    /\ ~app.isPlaying
    /\ CanAdvance
    /\ \E a \in {advanceBar(AppThis)} : AppBecomes(a)
    /\ op' = "advanceBar"

\* The reset button, or R.
ResetApp ==
    /\ \E a \in {appReset(AppThis)} : AppBecomes(a)
    /\ op' = "appReset"

\* The tempo slider moves.
TempoInput ==
    /\ \E v \in Tempos : \E a \in {tempoInput(AppThis, v)} : AppBecomes(a)
    /\ op' = "tempoInput"

\* The window is resized: the debounce timer is cleared and armed again.
Resize ==
    /\ \E w \in Widths \ {app.innerWidth} :
           AppBecomes([AppThis EXCEPT !.innerWidth = w, !.resizeTimer = TRUE])
    /\ op' = "resize"

\* The debounce timer fires.
ResizeTimeout ==
    /\ app.resizeTimer
    /\ \E a \in {handleResize([AppThis EXCEPT !.resizeTimer = FALSE])} :
           AppBecomes(a)
    /\ op' = "handleResize"

\* A scroll animation's completion fires.
ScrollTimeout ==
    /\ app.scrollTimeouts > 0
    /\ \E a \in {scrollDone(AppThis)} : AppBecomes(a)
    /\ op' = "scrollDone"

NextApp ==
    \/ Tick
    \/ TogglePlay
    \/ ArrowRight
    \/ ResetApp
    \/ TempoInput
    \/ Resize
    \/ ResizeTimeout
    \/ ScrollTimeout

SpecApp == InitApp /\ [][NextApp]_vars

\* The paused app with ArrowRight held down: the key repeats faster than the
\* 600 ms of a scroll animation.
MaxHeldBars == 6

ArrowRightRepeat ==
    /\ ~app.isPlaying
    /\ app.currentBarIndex < MaxHeldBars
    /\ \E a \in {advanceBar(AppThis)} : AppBecomes(a)
    /\ op' = "advanceBar"

NextArrow ==
    \/ ArrowRightRepeat
    \/ ScrollTimeout
    \/ Resize
    \/ ResizeTimeout

SpecArrow == InitApp /\ [][NextArrow]_vars

\* ------------------------------------------------------------------------
\* Shape of the state
\* ------------------------------------------------------------------------
TypeOK ==
    /\ barCount \in 0..MaxBars
    /\ Len(history) <= MaxBars
    /\ Len(recentDegrees) <= 8
    /\ threw \in BOOLEAN

\* ------------------------------------------------------------------------
\* Properties
\* ------------------------------------------------------------------------
\* The three-degree approach sequence that starts with degree d.
SequenceFrom(d) ==
    APPROACH_SEQUENCES[CHOOSE i \in 1..Len(APPROACH_SEQUENCES) :
                           APPROACH_SEQUENCES[i].w.chords[1] = d].w.chords

\* The slots of bar b, in order.
SlotsOfBar(b) == SelectSeq(slots, LAMBDA s : s.bar = b)

\* The app's fields keep their types.
AppTypeOK ==
    /\ DOMAIN app = AppFields
    /\ app.isPlaying \in BOOLEAN
    /\ app.currentBeat \in Nat
    /\ app.currentBarIndex \in Nat
    /\ app.barsPerRow \in {2, 4}
    /\ app.visibleRows = 3
    /\ app.displayedRowStart \in Nat
    /\ app.scrollTimeouts \in Nat
    /\ app.resizeTimer \in BOOLEAN
    /\ app.innerWidth \in Widths

\* C1: the k-th generateBar call after construction or a reset returns the
\* bar numbered k, whatever settings updates happen in between.
C1_BarNumberIsCallCount ==
    returned # <<>> => returned[1].barNumber = calls

C1_Witness ==
    /\ op = "generateBar" /\ calls = 2 /\ updates >= 1
    /\ startingKey # <<>> /\ returned # <<>>

\* C2: with settings in range generateBar does not throw, returns a bar of
\* 1 or 2 chords and appends exactly that bar to the history.
C2_GenerateBarCompletes ==
    [][op' = "generateBar" =>
          /\ ~threw'
          /\ Len(returned') = 1
          /\ Len(returned'[1].chords) \in {1, 2}
          /\ history' = Append(history, returned'[1])]_vars

C2_Witness ==
    /\ op = "generateBar" /\ Len(history) = 2
    /\ \E i \in 1..Len(slots) :
           /\ slots[i].src = "table"
           /\ ~Has(IF slots[i].keyAtDraw.mode = "minor" THEN MINOR_DEGREE_TRANSITIONS
                                                         ELSE DEGREE_TRANSITIONS,
                   slots[i].cur)

\* C3: twoChordProbability 0 gives one chord per bar, 1 gives two, for
\* every draw.
C3_TwoChordExtremes ==
    (op = "generateBar" /\ returned # <<>>) =>
        /\ settings.twoChordProbability = 0 => Len(returned[1].chords) = 1
        /\ settings.twoChordProbability = Unit => Len(returned[1].chords) = 2

C3_Witness ==
    /\ op = "generateBar" /\ returned # <<>>
    /\ settings.twoChordProbability = Unit
    /\ Len(returned[1].chords) = 2
    /\ Len(history) = 2 /\ Len(history[1].chords) = 1

\* C4: a triggered approach sequence is emitted in order by the next two
\* calls of getNextDegree from the queue, across bars and modulations; no
\* table draw or new approach happens in between.
C4_ApproachCompletes ==
    \A i \in 1..Len(slots) :
        slots[i].src = "approach" =>
            /\ slots[i].degree = SequenceFrom(slots[i].degree)[1]
            /\ i + 1 <= Len(slots) =>
                   /\ slots[i + 1].src = "queue"
                   /\ slots[i + 1].degree = SequenceFrom(slots[i].degree)[2]
            /\ i + 2 <= Len(slots) =>
                   /\ slots[i + 2].src = "queue"
                   /\ slots[i + 2].degree = SequenceFrom(slots[i].degree)[3]
            /\ i = Len(slots) => approachQueue = SubSeq(SequenceFrom(slots[i].degree), 2, 3)
            /\ i + 1 = Len(slots) => approachQueue = SubSeq(SequenceFrom(slots[i].degree), 3, 3)
            /\ i + 2 = Len(slots) => approachQueue = <<>>

C4_Witness ==
    \E i \in 1..Len(slots) :
        /\ slots[i].src = "approach"
        /\ i + 2 <= Len(slots)
        /\ slots[i + 2].bar # slots[i].bar
        /\ slots[i + 1].mods # <<>> \/ slots[i + 2].mods # <<>>

\* C5: reset leaves the initial engine state with the given key, or one of
\* the 8 roots in major or minor, and leaves the settings alone.
C5_ResetState ==
    [][op' = "reset" =>
          /\ currentDegree' = "I"
          /\ previousDegree' = Null
          /\ approachQueue' = <<>>
          /\ recentDegrees' = <<>>
          /\ barCount' = 0
          /\ history' = <<>>
          /\ IF startingKey' # <<>> THEN currentKey' = startingKey'[1]
             ELSE /\ currentKey'.root \in {"C", "F", "Bb", "Eb", "Ab", "G", "D", "A"}
                  /\ currentKey'.mode \in {"major", "minor"}
          /\ settings' = settings]_vars

C5_Witness ==
    /\ op = "reset" /\ startingKey = <<>>
    /\ settings # DefaultSettings
    /\ currentKey.mode = "minor"

\* The root of chord idx of bar b is the tonic of key plus the interval of degree.
RootIn(key, degree) ==
    NoteAt(JsMod(IndexOfNote(normalizeNote(key.root)) + getDegreeInterval(degree), 12))

\* C6: after reset(startingKey) the first chord of the first bar is
\* generated in startingKey from the tonic position.
C6_FirstChordInStartingKey ==
    (startingKey # <<>> /\ Len(slots) >= 1 /\ Len(history) >= 1) =>
        /\ slots[1].keyAtDraw = startingKey[1]
        /\ slots[1].cur = "I"
        /\ history[1].chords[1].root = RootIn(startingKey[1], slots[1].degree)

\* C7: for every bar after the first, keyChanged holds exactly when the key
\* snapshot differs from that of the bar before.
C7_KeyChangedIffDiffers ==
    \A i \in 2..Len(history) :
        history[i].keyChanged <=> history[i].key # history[i - 1].key

C7_Witness ==
    /\ Len(history) = 2
    /\ ~history[2].keyChanged
    /\ Len(SlotsOfBar(2)) = 2
    /\ \A j \in 1..2 : SlotsOfBar(2)[j].mods # <<>>

\* C9: every chord's root is the tonic of the key active when its degree was
\* drawn plus the interval of the degree.
C9_RootInKeyAtDraw ==
    \A i \in 1..Len(slots) :
        slots[i].bar <= Len(history) =>
            history[slots[i].bar].chords[slots[i].idx].root
                = RootIn(slots[i].keyAtDraw, slots[i].degree)

\* C10: updateSettings sets the named fields, keeps the others and changes
\* nothing else.
C10_UpdateSettingsFrame ==
    [][op' = "updateSettings" =>
          /\ DOMAIN settings' = DOMAIN settings
          /\ \A f \in DOMAIN settings :
                 settings'[f] = IF f \in DOMAIN lastUpdate' THEN lastUpdate'[f]
                                ELSE settings[f]
          /\ UNCHANGED <<currentKey, currentDegree, previousDegree, barCount,
                         history, recentDegrees, approachQueue>>]_vars

C10_Witness ==
    /\ op = "updateSettings"
    /\ Len(history) >= 1
    /\ approachQueue # <<>>
    /\ lastUpdate = [adventurousness |-> 0, complexity |-> 0]
    /\ settings = [keyStability |-> 85, adventurousness |-> 0, complexity |-> 0,
                   twoChordProbability |-> 15]

\* The semitone offset of a modulation type, as the documentation states it.
StatedOffset(type, mode) ==
    CASE type = "fifth_up"   -> 7
      [] type = "fifth_down" -> 5
      [] type = "relative"   -> IF mode = "major" THEN 9 ELSE 3
      [] type = "parallel"   -> 0
      [] type = "tritone"    -> 6
      [] type = "step_up"    -> 2
      [] type = "step_down"  -> 10

Flipped(mode) == IF mode = "major" THEN "minor" ELSE "major"

\* C8: modulate moves the root by the fixed offset of the type modulo 12 and
\* flips the mode only for relative and parallel.
C8_ModulationArithmetic ==
    \A i \in 1..Len(modLog) :
        LET m == modLog[i]
        IN /\ m.to.root = NOTES[((IndexOfNote(m.from.root)
                                     + StatedOffset(m.type, m.from.mode)) % 12) + 1]
           /\ m.to.mode = IF m.type \in {"relative", "parallel"} THEN Flipped(m.from.mode)
                          ELSE m.from.mode
           /\ m.from = Key("C", "major") =>
                  m.to = CASE m.type = "fifth_up"   -> Key("G", "major")
                           [] m.type = "fifth_down" -> Key("F", "major")
                           [] m.type = "relative"   -> Key("A", "minor")
                           [] m.type = "parallel"   -> Key("C", "minor")
                           [] m.type = "tritone"    -> Key("Gb", "major")
                           [] m.type = "step_up"    -> Key("D", "major")
                           [] m.type = "step_down"  -> Key("Bb", "major")

C8_Witness ==
    /\ Len(modLog) = 2
    /\ modLog[1].from = Key("C", "major") /\ modLog[1].type = "relative"
    /\ modLog[2].from = Key("A", "minor") /\ modLog[2].type = "relative"
    /\ currentKey = Key("C", "major")

\* C11: the history holds one bar per generateBar call since the last reset,
\* numbered 1, 2, ... in order, and every operation but reset keeps the bars
\* already in it unchanged (chords, key snapshot and keyChanged flag).
C11_HistoryAppendOnly ==
    [][/\ Len(history') = barCount'
       /\ \A i \in 1..Len(history') : history'[i].barNumber = i
       /\ op' # "reset" =>
              /\ Len(history') >= Len(history)
              /\ SubSeq(history', 1, Len(history)) = history
       /\ op' = "reset" => history' = <<>>]_vars

C11_Witness ==
    /\ op = "updateSettings"
    /\ Len(history) = 2
    /\ history[2].keyChanged
    /\ history[1].key # currentKey
    /\ Len(history[1].chords) = 2

\* C12: with keyStability 1 a generateBar call leaves the key as it was,
\* reports keyChanged false and applies no modulation in any slot, the
\* tonic included.
C12_StableKeyNeverModulates ==
    [][(op' = "generateBar" /\ settings.keyStability = Unit) =>
          /\ currentKey' = currentKey
          /\ returned'[1].key = currentKey
          /\ ~returned'[1].keyChanged
          /\ \A i \in 1..Len(slots') :
                 slots'[i].bar = barCount' => slots'[i].mods = <<>>]_vars

C12_Witness ==
    /\ op = "generateBar"
    /\ settings.keyStability = Unit
    /\ calls = 2
    /\ ~history[2].keyChanged
    /\ \E i \in 1..Len(slots) : slots[i].bar = 2 /\ slots[i].cur = "I"
    /\ \E i \in 1..Len(slots) : slots[i].bar = 2 /\ slots[i].cur # "I"

\* The first-order distribution of degree cur in a key of the given mode,
\* with the fallbacks of the lookup.
FirstOrderOf(mode, cur) ==
    LET table == IF mode = "minor" THEN MINOR_DEGREE_TRANSITIONS ELSE DEGREE_TRANSITIONS
    IN IF Has(table, cur) THEN Get(table, cur)
       ELSE IF Has(DEGREE_TRANSITIONS, cur) THEN Get(DEGREE_TRANSITIONS, cur)
       ELSE Get(DEGREE_TRANSITIONS, "I")

\* An override exists for the pair (prev, cur).
OverrideExists(prev, cur) ==
    prev # Null /\ \E i \in 1..Len(SECOND_ORDER_OVERRIDES) :
                       SECOND_ORDER_OVERRIDES[i].k = <<prev, cur>>

\* C16: precedence of getNextDegree.  A non-empty queue yields its head;
\* otherwise a triggered approach yields the head of a sequence toward a
\* target other than the current degree; otherwise an existing override for
\* (previous, current) is the only source of the next degree; the
\* first-order table of the key's mode is used only when there is none.
C16_NextDegreePrecedence ==
    \A i \in 1..Len(slots) :
        LET s == slots[i]
        IN /\ s.queue # <<>> => s.src = "queue" /\ s.degree = s.queue[1]
           /\ s.queue = <<>> => s.src \in {"approach", "override", "table"}
           /\ s.src = "approach" =>
                  \E j \in 1..Len(APPROACH_SEQUENCES) :
                      /\ APPROACH_SEQUENCES[j].k # s.cur
                      /\ s.degree = APPROACH_SEQUENCES[j].w.chords[1]
           /\ (s.src \in {"override", "table"} /\ OverrideExists(s.prev, s.cur)) =>
                  /\ s.src = "override"
                  /\ s.degree \in Keys(Get(SECOND_ORDER_OVERRIDES, <<s.prev, s.cur>>))
           /\ (s.src \in {"override", "table"} /\ ~OverrideExists(s.prev, s.cur)) =>
                  /\ s.src = "table"
                  /\ s.degree \in Keys(FirstOrderOf(s.keyAtDraw.mode, s.cur))

C16_Witness ==
    /\ \E i \in 1..Len(slots) :
           /\ slots[i].src = "override"
           /\ slots[i].degree \notin {"I"}
    /\ \E i \in 1..Len(slots) : slots[i].src = "queue"
    /\ \E i \in 1..Len(slots) : slots[i].src = "approach"

\* C17: when the override table is consulted after two or more emitted
\* degrees, the lookup pair is the last two emitted degrees in order.
C17_LookupPairIsLastTwoEmitted ==
    \A i \in 3..Len(slots) :
        slots[i].src \in {"override", "table"} =>
            /\ slots[i].prev = slots[i - 2].degree
            /\ slots[i].cur = slots[i - 1].degree

\* The two subsets a dominant-function chord draws from under a hint.
DarkerSubset == {"7", "7b9", "7#9", "7alt"}
BrighterSubset == {"7", "9", "13", "7#11", "sus4"}

\* C13: a dominant-function degree (V, II, III, VI, #IV) realized with a
\* hint gets a quality of the darker subset when the hint is one of ii, iii,
\* vi, i, iv, v, or is I in a minor key, and of the brighter subset otherwise.
C13_DominantQualityByHint ==
    (/\ op = "getChordQuality"
     /\ input.degree \in {"V", "II", "III", "VI", "#IV"}
     /\ input.nextDegreeHint # Null) =>
        IF \/ input.nextDegreeHint \in {"ii", "iii", "vi", "i", "iv", "v"}
           \/ (input.nextDegreeHint = "I" /\ currentKey.mode = "minor")
        THEN output[1] \in DarkerSubset
        ELSE output[1] \in BrighterSubset

C13_Witness ==
    /\ op = "getChordQuality"
    /\ input = [degree |-> "V", nextDegreeHint |-> "I"]
    /\ currentKey.mode = "major"
    /\ output = <<"sus4">>

\* The elements of a list.
Range(f) == {f[i] : i \in DOMAIN f}

\* The option list of a degree before the context override, by the stated
\* priority order.
StatedOptions(degree, isMinorKey) ==
    IF degree \in {"II", "III", "VI", "#IV"} THEN QUALITY_OPTIONS.dominant
    ELSE IF degree = "bII" THEN <<"7", "7#11", "9", "13">>
    ELSE IF degree \in {"bIII", "bVI", "bVII"} THEN <<"maj7", "7", "maj9">>
    ELSE IF degree = "iv" THEN QUALITY_OPTIONS.minor
    ELSE IF degree = "vii" \/ (degree = "ii" /\ isMinorKey) THEN QUALITY_OPTIONS.halfDim
    ELSE IF degree = "V" THEN QUALITY_OPTIONS.dominant
    ELSE IF degree \in {"ii", "iii", "vi", "v"} \/ (isMinorKey /\ degree \in {"i", "I", "IV"})
         THEN QUALITY_OPTIONS.minor
    ELSE IF degree \in {"I", "i"} THEN QUALITY_OPTIONS.tonic
    ELSE IF degree = "IV" THEN QUALITY_OPTIONS.subdominant
    ELSE <<"7", "maj7", "m7">>

\* C14: realized without a hint, every degree gets a quality of the list of
\* its category in the stated priority order; in particular v gets one of
\* the minor-quality list.
C14_ClassificationOrder ==
    (op = "getChordQuality" /\ input.nextDegreeHint = Null) =>
        output[1] \in Range(StatedOptions(input.degree, currentKey.mode = "minor"))

\* The display string of a quality token, as a character tuple.
Displayed(q) ==
    CASE q = "maj7"    -> <<"[Delta]", "7">>
      [] q = "maj9"    -> <<"[Delta]", "9">>
      [] q = "m7b5"    -> <<"[oslash]", "7">>
      [] q = "dim7"    -> <<"[degree]", "7">>
      [] q = "7#11"    -> <<"7", "[sharp]", "1", "1">>
      [] q = "7b9"     -> <<"7", "[flat]", "9">>
      [] q = "7#9"     -> <<"7", "[sharp]", "9">>
      [] q = "m7"      -> <<"-", "7">>
      [] q = "m9"      -> <<"-", "9">>
      [] q = "m11"     -> <<"-", "1", "1">>
      [] q = "m6"      -> <<"-", "6">>
      [] q = "m69"     -> <<"-", "6", "/", "9">>
      [] q = "69"      -> <<"6", "/", "9">>
      [] q = "maj7#11" -> <<"[Delta]", "7", "[sharp]", "1", "1">>
      [] q = "7"       -> <<"7">>
      [] q = "9"       -> <<"9">>
      [] q = "13"      -> <<"1", "3">>
      [] q = "6"       -> <<"6">>
      [] q = "7alt"    -> <<"7", "a", "l", "t">>
      [] q = "sus4"    -> <<"s", "u", "s", "4">>
      [] q = "[oslash]7" -> <<"[oslash]", "7">>
      [] q = "[degree]7" -> <<"[degree]", "7">>

\* C15: formatChordName returns the root unchanged and the display string
\* of the quality token, no token being rewritten by a rule meant for
\* another.
C15_FormatChordName ==
    op = "formatChordName" =>
        /\ output[1].root = input.root
        /\ output[1].quality = Displayed(input.quality)

C15_Witness ==
    /\ op = "formatChordName"
    /\ input = [root |-> "Bb", quality |-> "m7b5"]
    /\ output[1].quality = <<"[oslash]", "7">>

\* The weight w over denominator den, brought to the denominator to
\* (a multiple of den).
Rescale(w, den, to) == w * (to \div den)

\* Numerator of w*(1-a) + a/n over the denominator Unit*Unit*n, for a raw
\* weight w and an adventurousness a both in hundredths.
Blend(w, a, n) == w * (Unit - a) * n + Unit * a

\* C18: the pass is skipped for a window of fewer than 3 degrees; otherwise
\* the final weight of each degree is its blended weight times 0.3 for 3 or
\* more occurrences in the window, 0.7 for exactly 2, and 1 for 0 or 1.
C18_AntiRepetitionPenalty ==
    op = "applyAntiRepetition" =>
        LET raw   == input.transitions
            n     == Len(raw)
            final == output[2]
            to    == Unit * Unit * n * 10
        IN /\ Len(final.e) = n
           /\ to % final.den = 0
           /\ \A i \in 1..n :
                  LET count == Cardinality({j \in 1..Len(recentDegrees) :
                                               recentDegrees[j] = raw[i].k})
                      tenths == IF Len(recentDegrees) < 3 THEN 10
                                ELSE IF count >= 3 THEN 3
                                ELSE IF count = 2 THEN 7
                                ELSE 10
                  IN /\ final.e[i].k = raw[i].k
                     /\ Rescale(final.e[i].w, final.den, to)
                            = Blend(raw[i].w, settings.adventurousness, n) * tenths

C18_Witness ==
    /\ op = "applyAntiRepetition"
    /\ recentDegrees = <<"V", "I", "V", "I", "V">>
    /\ settings.adventurousness = 30
    /\ input.transitions = Get(DEGREE_TRANSITIONS, "V")
    /\ output[2] # output[1]

\* C19: the blend maps each weight w of an N-entry distribution to
\* w*(1-a) + a/N over the same degrees: unchanged for a = 0, exactly 1/N
\* for a = 1.
C19_AdventurousnessBlend ==
    op = "adjustForAdventurousness" =>
        LET raw      == input.transitions
            n        == Len(raw)
            adjusted == output[1]
            to       == Unit * Unit * n
        IN /\ Len(adjusted.e) = n
           /\ to % adjusted.den = 0
           /\ \A i \in 1..n :
                  /\ adjusted.e[i].k = raw[i].k
                  /\ Rescale(adjusted.e[i].w, adjusted.den, to)
                         = Blend(raw[i].w, settings.adventurousness, n)
                  /\ settings.adventurousness = 0 =>
                         adjusted.e[i].w * Unit = raw[i].w * adjusted.den
                  /\ settings.adventurousness = Unit =>
                         adjusted.e[i].w * n = adjusted.den

C19_Witness ==
    /\ op = "adjustForAdventurousness"
    /\ settings.adventurousness = Unit
    /\ Len(input.transitions) = 3
    /\ \A i \in 1..3 : output[1].e[i].w * 3 = output[1].den

\* C20: generateBar, reset and updateSettings leave the two first-order
\* tables, the override table and the approach sequences with the entries,
\* weights and chord lists they were loaded with.
C20_StaticTablesUnchanged ==
    /\ tables.DEGREE_TRANSITIONS = DEGREE_TRANSITIONS
    /\ tables.MINOR_DEGREE_TRANSITIONS = MINOR_DEGREE_TRANSITIONS
    /\ tables.SECOND_ORDER_OVERRIDES = SECOND_ORDER_OVERRIDES
    /\ \A i \in 1..Len(APPROACH_SEQUENCES) :
           /\ tables.APPROACH_SEQUENCES[i].k = APPROACH_SEQUENCES[i].k
           /\ tables.APPROACH_SEQUENCES[i].w.chords = APPROACH_SEQUENCES[i].w.chords

C20_Witness ==
    /\ op = "generateBar"
    /\ Len(slots) = 4
    /\ slots[1].src = "approach"
    /\ slots[2].src = "queue"
    /\ slots[3].src = "queue"
    /\ slots[4].src = "override"
    /\ approachQueue = <<>>
    /\ Len(recentDegrees) = 4

\* The last min(8, n) of the first n degrees emitted since the reset, oldest
\* first.
LastEmitted(n) ==
    LET len == IF n < 8 THEN n ELSE 8
    IN [j \in 1..len |-> slots[n - len + j].degree]

\* C21: after every chord slot the window is the last min(8, n) degrees
\* emitted since the reset, oldest first, n being the number of chords
\* emitted; it never holds more than 8.
C21_WindowIsLastEight ==
    /\ \A n \in 1..Len(slots) :
           /\ slots[n].window = LastEmitted(n)
           /\ Len(slots[n].window) <= 8
    /\ recentDegrees = LastEmitted(Len(slots))

C21_Witness ==
    /\ Len(slots) = 10
    /\ Len(recentDegrees) = 8
    /\ recentDegrees[1] = slots[3].degree
    /\ slots[1].degree # slots[3].degree
    /\ slots[9].window[1] # slots[10].window[1]

\* The 0-based index of quality q in an option list.
IndexIn(options, q) == (CHOOSE i \in 1..Len(options) : options[i] = q) - 1

\* C22: the pick returns an index of 0 .. floor(1 + (L-1)*c) - 1 and never
\* more than L-1; every index of that range is returned by some draw, index
\* 0 by the draw 0 at every c; c = 0 returns index 0 only; the last option
\* of a list of two or more is returned only at c = 1.
C22_PickIndexRange ==
    op = "pickQuality" =>
        LET L        == Len(input.options)
            c        == input.complexity
            maxIndex == (Unit + (L - 1) * c) \div Unit
            idx(j)   == IndexIn(input.options, output[j])
        IN /\ \A j \in 1..Len(output) :
                  /\ output[j] \in Range(input.options)
                  /\ idx(j) \in 0..(maxIndex - 1)
                  /\ idx(j) <= L - 1
                  /\ c = 0 => idx(j) = 0
                  /\ (L >= 2 /\ idx(j) = L - 1) => c = Unit
           /\ idx(1) = 0
           /\ Len(output) = Len(PickDraws) =>
                  {idx(j) : j \in 1..Len(output)} = 0..(maxIndex - 1)

C22_Witness ==
    /\ op = "pickQuality"
    /\ input = [options |-> QUALITY_OPTIONS.dominant, complexity |-> 50]
    /\ Len(output) = Len(PickDraws)
    /\ {output[j] : j \in 1..Len(output)} = {"7", "9", "13", "7#11"}

\* The 12-entry major-shape table, by upper-cased numeral.
StatedTable ==
    [I |-> 0, bII |-> 1, II |-> 2, bIII |-> 3, III |-> 4, IV |-> 5, bV |-> 6,
     V |-> 7, bVI |-> 8, VI |-> 9, bVII |-> 10, VII |-> 11]

\* The degree with its numeral upper-cased.
UpperCased(d) ==
    CASE d = "i" -> "I"     [] d = "ii" -> "II"   [] d = "iii" -> "III"
      [] d = "iv" -> "IV"   [] d = "v" -> "V"     [] d = "vi" -> "VI"
      [] d = "vii" -> "VII" [] d = "bii" -> "bII" [] OTHER -> d

\* The degree after a leading '#', Null when there is none.
Sharpened(d) ==
    CASE d = "#I" -> "I" [] d = "#IV" -> "IV" [] d = "#V" -> "V"
      [] d = "#VII" -> "VII" [] d = "#X" -> "X" [] OTHER -> Null

StatedBase(d) ==
    IF UpperCased(d) \in DOMAIN StatedTable THEN StatedTable[UpperCased(d)] ELSE 0

StatedInterval(d) ==
    IF Sharpened(d) # Null THEN (StatedBase(Sharpened(d)) + 1) % 12 ELSE StatedBase(d)

\* The pitch class of a key root.
PitchClass ==
    [C |-> 0, Db |-> 1, D |-> 2, Eb |-> 3, E |-> 4, F |-> 5, Gb |-> 6, G |-> 7,
     Ab |-> 8, A |-> 9, Bb |-> 10, B |-> 11]
    @@ ("C#" :> 1) @@ ("F#" :> 6) @@ ("A#" :> 10)

\* C23: the root of the chord realizeChord returns is the note at (pitch
\* class of the key root + interval(degree)) mod 12, the interval being the
\* 12-entry table's after upper-casing the numeral, in both modes; a
\* leading '#' adds a semitone modulo 12; an unrecognized degree has
\* interval 0.
C23_RootByInterval ==
    op = "realizeChord" =>
        /\ output[1].root =
               NOTES[((PitchClass[currentKey.root] + StatedInterval(input.degree)) % 12) + 1]
        /\ input.degree = "X" => output[1].root = normalizeNote(currentKey.root)
        /\ output[1].root = RootIn(currentKey, UpperCased(input.degree))

C23_Witness ==
    /\ op = "realizeChord"
    /\ currentKey = Key("G", "minor")
    /\ input.degree = "#IV"
    /\ output[1].root = "Db"

\* C24: a maybeModulate call that does not fire changes no engine field; a
\* modulation, fired by maybeModulate or called directly, changes the key,
\* leaves the current degree or sets it to 'I', and leaves the previous
\* degree, the approach queue, the window, the bar counter, the history
\* and the settings unchanged.
C24_ModulationFrame ==
    [][ /\ (op' = "maybeModulate" /\ modLog'[Len(modLog')].type = Null) =>
               UNCHANGED engine
        /\ (op' \in {"maybeModulate", "modulate"} /\ modLog'[Len(modLog')].type # Null) =>
               /\ currentKey' # currentKey
               /\ currentDegree' \in {currentDegree, "I"}
               /\ UNCHANGED <<previousDegree, approachQueue, recentDegrees,
                              barCount, history, settings>> ]_vars

C24_Witness ==
    /\ op = "maybeModulate"
    /\ Len(modLog) = 2
    /\ modLog[1].type = Null /\ modLog[1].from = modLog[1].to
    /\ modLog[2].type # Null /\ modLog[2].degree # "I" /\ currentDegree = "I"
    /\ previousDegree # Null
    /\ approachQueue # <<>>
    /\ recentDegrees # <<>>
    /\ barCount > 0

\* C25: peekLikelyNextDegree changes neither the key, the current or
\* previous degree, the approach queue, the window nor the bar counter,
\* and returns what it returns at any other adventurousness and with any
\* other window (empty, or full of the degree it returns).
C25_PeekReadOnly ==
    [][ op' = "peekLikelyNextDegree" =>
           /\ UNCHANGED <<currentKey, currentDegree, previousDegree, approachQueue,
                          recentDegrees, barCount, history, settings>>
           /\ \A a \in Adventures :
              \A w \in {<<>>, recentDegrees, [i \in 1..8 |-> output'[1]]} :
                  output'[1] = peekLikelyNextDegree(
                                   [This EXCEPT !.settings.adventurousness = a,
                                                !.recentDegrees = w]) ]_vars

C25_Witness ==
    /\ op = "peekLikelyNextDegree"
    /\ settings.adventurousness = Unit
    /\ Len(recentDegrees) >= 3
    /\ CountRecent(recentDegrees, output[1]) >= 2
    /\ previousDegree # Null
    /\ output[1] # "I"

\* The distribution steps 3-4 of getNextDegree select at (mode, prev, cur).
StatedSelection(mode, prev, cur) ==
    IF OverrideExists(prev, cur) THEN Get(SECOND_ORDER_OVERRIDES, <<prev, cur>>)
    ELSE FirstOrderOf(mode, cur)

\* C26: peekLikelyNextDegree returns a destination of the selected
\* distribution whose weight no other exceeds and no earlier one equals;
\* from 'v' in a minor key, where bVI and bVII tie, it returns bVI.
C26_PeekHighestFirstListed ==
    op = "peekLikelyNextDegree" =>
        LET d == StatedSelection(currentKey.mode, input.previousDegree, input.currentDegree)
        IN /\ \E i \in 1..Len(d) :
                  /\ d[i].k = output[1]
                  /\ \A j \in 1..Len(d) : d[j].w <= d[i].w
                  /\ \A j \in 1..(i - 1) : d[j].w < d[i].w
           /\ (currentKey.mode = "minor" /\ input.currentDegree = "v"
                  /\ ~OverrideExists(input.previousDegree, "v")) => output[1] = "bVI"

C26_Witness ==
    /\ op = "peekLikelyNextDegree"
    /\ currentKey.mode = "minor"
    /\ input = [previousDegree |-> "I", currentDegree |-> "v"]
    /\ output = <<"bVI">>
    /\ Get(Get(MINOR_DEGREE_TRANSITIONS, "v"), "bVII") = Get(Get(MINOR_DEGREE_TRANSITIONS, "v"), "bVI")

\* C27: without an override the distribution selected for the draw is the
\* current degree's entry of the mode's table, else its entry of the major
\* table, else the major table's entry of 'I'; it is never empty and its
\* weights are positive.  'v' in a major key gets the entry of 'I', 'iii'
\* in a minor key the major entry of 'iii'.
C27_FirstOrderFallback ==
    (op = "selectTransitions" /\ ~output[1].override) =>
        LET cur   == input.currentDegree
            minor == currentKey.mode = "minor"
            own   == IF minor THEN MINOR_DEGREE_TRANSITIONS ELSE DEGREE_TRANSITIONS
            d     == output[1].transitions
        IN /\ cur \in Keys(own) => d = Get(own, cur)
           /\ (cur \notin Keys(own) /\ cur \in Keys(DEGREE_TRANSITIONS)) =>
                  d = Get(DEGREE_TRANSITIONS, cur)
           /\ (cur \notin Keys(own) /\ cur \notin Keys(DEGREE_TRANSITIONS)) =>
                  d = Get(DEGREE_TRANSITIONS, "I")
           /\ Len(d) > 0
           /\ \A i \in 1..Len(d) : d[i].w > 0
           /\ (~minor /\ cur = "v") => d = Get(DEGREE_TRANSITIONS, "I")
           /\ (minor /\ cur = "iii") => d = Get(DEGREE_TRANSITIONS, "iii")

C27_Witness ==
    /\ op = "selectTransitions"
    /\ currentKey.mode = "minor"
    /\ input.currentDegree = "iii"
    /\ ~output[1].override
    /\ output[1].transitions = Get(DEGREE_TRANSITIONS, "iii")
    /\ "iii" \notin Keys(MINOR_DEGREE_TRANSITIONS)

\* The fixed 3-degree sequence toward each target.
StatedApproach ==
    [I |-> <<"ii", "V", "I">>, ii |-> <<"iii", "VI", "ii">>,
     V |-> <<"vi", "II", "V">>, vi |-> <<"vii", "III", "vi">>]

\* C28: when tryStartApproach queues a sequence, the queue is the fixed
\* sequence of a target among I, ii, V, vi, and the target, its last
\* degree, is not the current degree.
C28_ApproachAvoidsCurrent ==
    (op = "tryStartApproach" /\ output[1].queued) =>
        LET q == output[1].approachQueue
        IN /\ Len(q) = 3
           /\ q[3] \in {"I", "ii", "V", "vi"}
           /\ q[3] # input.currentDegree
           /\ q = StatedApproach[q[3]]

C28_Witness ==
    /\ op = "tryStartApproach"
    /\ input.currentDegree = "I"
    /\ output[1].queued
    /\ output[1].approachQueue = <<"iii", "VI", "ii">>

\* C29: weightedRandom over a non-empty mapping returns one of its keys,
\* and the first listed key when every weight is zero.
C29_WeightedRandomReturnsKey ==
    (op = "weightedRandom" /\ Len(input.weights) > 0) =>
        /\ output[1] \in Keys(input.weights)
        /\ (\A i \in 1..Len(input.weights) : input.weights[i].w = 0) =>
               output[1] = input.weights[1].k

C29_Witness ==
    /\ op = "weightedRandom"
    /\ input.weights = <<E("ii", 0), E("V", 0), E("I", 0)>>
    /\ output = <<"ii">>

\* The 12 normalized note names.
NormalizedNames == {"C", "Db", "D", "Eb", "E", "F", "Gb", "G", "Ab", "A", "Bb", "B"}

\* C30: from a reset with no key or with a key of a normalized root and
\* mode major or minor, the root of the current key is always one of the 12
\* normalized names, its mode major or minor, and so are the key of every
\* bar and the root of every chord of every bar.
C30_RootsAmongTwelve ==
    /\ currentKey.root \in NormalizedNames
    /\ currentKey.mode \in {"major", "minor"}
    /\ \A b \in 1..Len(history) :
           /\ history[b].key.root \in NormalizedNames
           /\ history[b].key.mode \in {"major", "minor"}
           /\ \A c \in 1..Len(history[b].chords) :
                  history[b].chords[c].root \in NormalizedNames

C30_Witness ==
    /\ op = "generateBar"
    /\ startingKey = <<Key("A", "minor")>>
    /\ Len(history) = 2
    /\ history[1].key = Key("E", "minor")
    /\ history[2].key = Key("B", "minor")
    /\ history[2].chords[1].root # "B"

\* The 16 tokens of the degree vocabulary.
SixteenTokens ==
    {"I", "ii", "iii", "IV", "V", "vi", "vii", "bII", "bIII", "bVI", "bVII", "iv",
     "v", "II", "III", "VI"}

\* C31: a degree getNextDegree returns is one of the 16 tokens, never
\* '#IV' or 'i'; vii, III and VI come only from an approach sequence
\* (started by the call or already queued).
C31_EmittedVocabulary ==
    op = "getNextDegree" =>
        /\ output[1].degree \in SixteenTokens
        /\ output[1].degree \notin {"#IV", "i"}
        /\ output[1].degree \in {"vii", "III", "VI"} =>
               output[1].src \in {"approach", "queue"}

C31_Witness ==
    /\ op = "getNextDegree"
    /\ input.currentDegree = "IV" /\ input.approachQueue = <<>>
    /\ currentKey.mode = "major"
    /\ output[1].src = "table"
    /\ output[1].degree = "iv"

\* The last two and the last one degrees of the four approach sequences.
ApproachTails ==
    { <<"V", "I">>, <<"I">>, <<"VI", "ii">>, <<"ii">>,
      <<"II", "V">>, <<"V">>, <<"III", "vi">>, <<"vi">> }

\* C32: before every getNextDegree call and after every bar the approach
\* queue has 0, 1 or 2 degrees, and a non-empty queue is the last two or
\* the last one degrees of one of the four approach sequences.
C32_QueueIsApproachTail ==
    /\ Len(approachQueue) \in 0..2
    /\ approachQueue # <<>> => approachQueue \in ApproachTails
    /\ \A n \in 1..Len(slots) :
           /\ Len(slots[n].queue) \in 0..2
           /\ slots[n].queue # <<>> => slots[n].queue \in ApproachTails

C32_Witness ==
    /\ op = "generateBar"
    /\ Len(slots) >= 2
    /\ slots[Len(slots) - 1].src = "approach" /\ slots[Len(slots) - 1].queue = <<>>
    /\ slots[Len(slots)].src = "queue" /\ Len(slots[Len(slots)].queue) = 2
    /\ Len(approachQueue) = 1

\* C33: a modulation changes the key, in root or in mode, from each of the
\* 24 keys by each of the 7 types, and from every key every type is
\* selected by some draw.
C33_ModulationChangesKey ==
    /\ \A i \in 1..Len(modLog) :
           \/ modLog[i].to.root # modLog[i].from.root
           \/ modLog[i].to.mode # modLog[i].from.mode
    /\ \A type \in {"fifth_up", "fifth_down", "relative", "parallel", "tritone",
                      "step_up", "step_down"} :
           \E rs \in ModulateStreams :
               /\ modulate(This, rs).mods = <<type>>
               /\ modulate(This, rs).currentKey # currentKey

C33_Witness ==
    /\ op = "modulate"
    /\ Len(modLog) = 1
    /\ modLog[1].type = "step_down"
    /\ modLog[1].from = Key("Db", "minor")
    /\ currentKey = Key("B", "minor")

\* The type that undoes a modulation type.
InverseType(type) ==
    CASE type = "fifth_up" -> "fifth_down" [] type = "fifth_down" -> "fifth_up"
      [] type = "step_up" -> "step_down"   [] type = "step_down" -> "step_up"
      [] OTHER -> type

\* C34: from each of the 24 keys a modulation followed by the modulation
\* of the inverse type (fifth_up / fifth_down, step_up / step_down,
\* relative, parallel and tritone their own inverses) returns to the
\* original root and mode.
C34_ModulationsInverse ==
    \A i \in 1..(Len(modLog) - 1) :
        (modLog[i + 1].from = modLog[i].to
         /\ modLog[i + 1].type = InverseType(modLog[i].type)) =>
            /\ modLog[i + 1].to.root = modLog[i].from.root
            /\ modLog[i + 1].to.mode = modLog[i].from.mode

C34_Witness ==
    /\ Len(modLog) = 2
    /\ modLog[1].from = Key("A", "minor") /\ modLog[1].type = "fifth_up"
    /\ modLog[1].to = Key("E", "minor")
    /\ modLog[2].type = "fifth_down"
    /\ currentKey = Key("A", "minor")

\* The keys of a distribution in their order.
KeysInOrder(entries) == [i \in 1..Len(entries) |-> entries[i].k]

\* C35: after the blend and after the anti-repetition pass the
\* distribution has the degrees of the raw distribution in the same order,
\* each with a weight above 0, and the degree drawn from it is one of the
\* raw distribution's destinations.
C35_ShapingKeepsSupport ==
    /\ \A j \in 1..Len(output) :
           (op \in {"adjustForAdventurousness", "applyAntiRepetition", "drawShaped"}
            /\ j <= 2) =>
               /\ KeysInOrder(output[j].e) = KeysInOrder(input.transitions)
               /\ \A i \in 1..Len(output[j].e) : output[j].e[i].w > 0
               /\ output[j].den > 0
    /\ op = "drawShaped" => output[3] \in Keys(input.transitions)

C35_Witness ==
    /\ op = "drawShaped"
    /\ recentDegrees = <<"I", "I", "I", "I", "vi", "vi", "IV", "ii">>
    /\ settings.adventurousness = 0
    /\ input.transitions = Get(DEGREE_TRANSITIONS, "V")
    /\ output[3] = "I"
\* C36: under any interleaving of ticks, arrow-key advances, resizes and
\* pending scroll callbacks, the bar under the cursor exists: getCurrentBar
\* never returns null.
C36_CurrentBarExists == getCurrentBar(AppThis) # <<>>

\* C37: after the app's reset the display window is at row 0 with the
\* current bar index 0, and it stays at row 0 until the current bar advances
\* into a later row, also when a scroll-completion callback armed before the
\* reset fires after it.
C37_WindowAtRowZeroAfterReset ==
    /\ op = "appReset" => app.currentBarIndex = 0
    /\ ~app.leftFirstRow => app.displayedRowStart = 0

\* C38: a beat timer is active exactly when isPlaying is true, and at most
\* one interval timer exists at any time, under any sequence of play/pause
\* toggles, tempo changes while playing or paused, and resets.
C38_OneTimerIffPlaying ==
    /\ app.isPlaying <=> app.intervals # {}
    /\ Cardinality(app.intervals) <= 1
    /\ app.intervals = IF app.isPlaying THEN {app.intervalId} ELSE {}

C38_Witness ==
    /\ op = "tempoInput"
    /\ app.isPlaying
    /\ app.tempo = 200
    /\ Cardinality(app.intervals) = 1
    /\ app.currentBeat = 3

\* C39: the beat counter stays within 0..4 and a tick moves it 1, 2, 3, 4
\* and back to 1; the current bar advances by one exactly on the tick that
\* follows beat 4 and on no other tick, and pausing or resuming keeps the
\* beat and the bar.
C39_FourTicksPerBar ==
    [][/\ app.currentBeat \in 0..4 /\ app'.currentBeat \in 0..4
       /\ op' = "tick" =>
              /\ app'.currentBeat = IF app.currentBeat = 4 THEN 1
                                    ELSE app.currentBeat + 1
              /\ app'.currentBarIndex = IF app.currentBeat = 4
                                        THEN app.currentBarIndex + 1
                                        ELSE app.currentBarIndex
       /\ op' = "togglePlay" =>
              /\ app'.isPlaying = ~app.isPlaying
              /\ app'.currentBeat = app.currentBeat
              /\ app'.currentBarIndex = app.currentBarIndex]_vars

C39_Witness ==
    /\ op = "togglePlay"
    /\ app.isPlaying
    /\ app.currentBeat = 4
    /\ app.currentBarIndex = MaxBarIndex

\* C40: the bars of all rows, concatenated in row order, have the
\* consecutive barNumbers 1, 2, 3, ...: the bar at position p of row r, whose
\* global index is g = r * barsPerRow + p, has barNumber g + 1, after the
\* initial generation, row generation on scroll, reset, and the
\* redistribution and padding of handleResize.
C40_RowsNumberedInOrder ==
    /\ \A g \in 1..Len(AllBars(app.rows)) :
           AllBars(app.rows)[g].barNumber = g
    /\ \A r \in 1..Len(app.rows) : \A p \in 1..Len(app.rows[r].bars) :
           app.rows[r].bars[p].barNumber = (r - 1) * app.barsPerRow + p

C40_Witness ==
    /\ op = "handleResize"
    /\ app.barsPerRow = 4
    /\ app.currentBarIndex = 2
    /\ app.leftFirstRow
    /\ app.scrollTimeouts = 1
    /\ Len(AllBars(app.rows)) = 12

====
